---- MODULE Spec2Model ----
(***************************************************************************)
(* Model of the Vibe Tide level codec and of the code that calls it:       *)
(*   - server.ts   : runLengthEncode/Decode, base64urlEncode/Decode,        *)
(*                   encodeLevel, decodeLevel, normalizePayload and the     *)
(*                   tool handlers built on them;                           *)
(*   - mcp-app.ts  : class LevelEncoder (the UI copy of the codec) and the  *)
(*                   decoder injected into the game page (decodeFullLevel). *)
(*                                                                         *)
(* A JavaScript string is a sequence of one-character strings.  A          *)
(* JavaScript number is a tagged record (Num, NaN, Undefined, ...), since   *)
(* the code produces NaN and undefined where the text is not numeric.      *)
(***************************************************************************)
EXTENDS Integers, Sequences, FiniteSets, TLC

(***************************************************************************)
(* Bounds of the model.                                                    *)
(***************************************************************************)
MaxW == 3
MaxH == 2
MaxCells == 6
MaxRleLen == 5
MaxRun == 11
MaxRldLen == 4
MaxCalls == 3
MaxOps == 2
\* the editor starts from createEmptyLevel(50, 22) and resizes to 10 or
\* more; the model scales these three numbers down
EmptyWidth == 3
EmptyHeight == 2
MinResize == 2
MaxParam == 12

(***************************************************************************)
(* JavaScript values.                                                      *)
(***************************************************************************)
Num(n) == [type |-> "number", val |-> n]
NaN == [type |-> "NaN", val |-> 0]
Infinity == [type |-> "Infinity", val |-> 0]
Undefined == [type |-> "undefined", val |-> 0]
Null == [type |-> "null", val |-> 0]
Bool(b) == [type |-> "boolean", val |-> IF b THEN 1 ELSE 0]
Str == [type |-> "string", val |-> 0]

\* Number.isFinite(v)
IsFinite(v) == v.type = "number"

\* a < b on JavaScript numbers: false as soon as one side is NaN
JsLess(a, b) == a.type = "number" /\ b.type = "number" /\ a.val < b.val

\* The numeric arguments of the tools and the tile ids of a grid are plain
\* integers; HalfBase + k stands for the non-integer number k + 0.5 (k >= 0).
HalfBase == 1000

Half(k) == HalfBase + k

\* Number.isInteger(n)
IsInteger(n) == n < HalfBase

\* two times the number n
Twice(n) == IF IsInteger(n) THEN 2 * n ELSE (2 * (n - HalfBase)) + 1

\* a < b on such numbers
NumLess(a, b) == Twice(a) < Twice(b)

(***************************************************************************)
(* Text helpers.                                                           *)
(***************************************************************************)
Digits == <<"0", "1", "2", "3", "4", "5", "6", "7", "8", "9">>

DigitSet == {Digits[i] : i \in 1..10}

DigitVal(c) == (CHOOSE i \in 1..10 : Digits[i] = c) - 1

IsDigit(c) == c \in DigitSet

\* String.prototype.repeat for a one-character string
Repeat(c, n) == IF n <= 0 THEN <<>> ELSE [i \in 1..n |-> c]

RECURSIVE NatToStr(_)
\* decimal digits of a natural number, as `${n}` prints it
NatToStr(n) == IF n < 10 THEN <<Digits[n + 1]>>
               ELSE NatToStr(n \div 10) \o <<Digits[(n % 10) + 1]>>

\* decimal text of an integer
IntToStr(n) == IF n < 0 THEN <<"-">> \o NatToStr(0 - n) ELSE NatToStr(n)

RECURSIVE DigitsToNat(_, _)
\* value of a string of decimal digits (acc is the value read so far)
DigitsToNat(s, acc) == IF s = <<>> THEN acc
                       ELSE DigitsToNat(Tail(s), acc * 10 + DigitVal(Head(s)))

AllDigits(s) == \A i \in 1..Len(s) : IsDigit(s[i])

\* text of a JavaScript number inside a template literal `${v}`
NumToStr(v) == IF v.type = "number" THEN IntToStr(v.val)
               ELSE IF v.type = "NaN" THEN <<"N", "a", "N">>
               ELSE <<"u", "n", "d", "e", "f", "i", "n", "e", "d">>

\* undefined where a string is expected: no string has this element
NoText == <<"undefined">>

\* Number(s) for a string s, or for undefined (a missing array element).
\* Exact on the texts the model feeds it: the empty text, digit strings,
\* signed digit strings, and texts holding a letter.
ToNumber(s) ==
  IF s = NoText THEN NaN
  ELSE IF s = <<>> THEN Num(0)
  ELSE IF AllDigits(s) THEN Num(DigitsToNat(s, 0))
  ELSE IF Len(s) > 1 /\ Head(s) = "-" /\ AllDigits(Tail(s))
       THEN Num(0 - DigitsToNat(Tail(s), 0))
  ELSE NaN

\* parseInt(s) for a non-empty string of decimal digits
ParseInt(s) == DigitsToNat(s, 0)

\* index of the first occurrence of c in s, 0 when there is none
IndexOf(s, c) == IF \E i \in 1..Len(s) : s[i] = c
                 THEN CHOOSE i \in 1..Len(s) : s[i] = c /\ \A j \in 1..(i - 1) : s[j] # c
                 ELSE 0

Includes(s, c) == \E i \in 1..Len(s) : s[i] = c

RECURSIVE Split(_, _)
\* String.prototype.split(c): every piece between separators, in order
Split(s, c) == LET i == IndexOf(s, c)
               IN  IF i = 0 THEN <<s>>
                   ELSE <<SubSeq(s, 1, i - 1)>> \o Split(SubSeq(s, i + 1, Len(s)), c)

\* destructuring that yields the empty string for a missing element
At_EmptyText(arr, i) == IF i <= Len(arr) THEN arr[i] ELSE <<>>

\* array destructuring: element i of an array of strings, undefined past
\* its end
At(arr, i) == IF i <= Len(arr) THEN arr[i] ELSE NoText

(***************************************************************************)
(* Tile alphabet (server.ts tileChars / charTiles).                        *)
(***************************************************************************)
tileChars == <<".", "G", "R", "Y", "I", "F", "S", "W">>

TileCharSet == {tileChars[i] : i \in 1..8}

\* TileToChar writing the nearest tile of the table for a number above 7
TileToChar_Clamp(tile) ==
  IF tile \in 0..7 THEN tileChars[tile + 1] ELSE IF tile > 7 THEN "W" ELSE "."

\* tileChars[tile] ?? ".": a dot when the table has no such key (a negative
\* number, a number above 7, a non-integer)
TileToChar(tile) == IF tile \in 0..7 THEN tileChars[tile + 1] ELSE "."

\* charTiles[char] ?? 0
charTiles(char) == IF char \in TileCharSet
                   THEN (CHOOSE i \in 1..8 : tileChars[i] = char) - 1
                   ELSE 0

(***************************************************************************)
(* Run-length compression of '.' (server.ts).                              *)
(***************************************************************************)
\* EmitRun with the threshold off by one: a run of two dots is compressed
EmitRun_Threshold(current, count) ==
  IF current = "." /\ count > 1 THEN <<".">> \o NatToStr(count)
  ELSE Repeat(current, count)

\* the text appended when a run ends
EmitRun(current, count) ==
  IF current = "." /\ count > 2 THEN <<".">> \o NatToStr(count)
  ELSE Repeat(current, count)

RECURSIVE rleEncodeLoop(_, _, _, _, _)
rleEncodeLoop(input, i, result, count, current) ==
  IF i > Len(input) THEN result \o EmitRun(current, count)
  ELSE IF input[i] = current /\ current = "."
       THEN rleEncodeLoop(input, i + 1, result, count + 1, current)
       ELSE rleEncodeLoop(input, i + 1, result \o EmitRun(current, count), 1, input[i])

runLengthEncode(input) ==
  IF input = <<>> THEN input
  ELSE rleEncodeLoop(input, 2, <<>>, 1, input[1])

\* a digit run cut after its first digit
DigitRun_One(input, j) == <<input[j]>>

\* the digits that start at position j
RECURSIVE DigitRun(_, _)
DigitRun(input, j) ==
  IF j <= Len(input) /\ IsDigit(input[j]) THEN <<input[j]>> \o DigitRun(input, j + 1)
  ELSE <<>>

RECURSIVE rleDecodeLoop(_, _, _)
rleDecodeLoop(input, i, result) ==
  IF i > Len(input) THEN result
  ELSE IF input[i] = "." /\ i + 1 <= Len(input) /\ IsDigit(input[i + 1])
       THEN LET numStr == DigitRun(input, i + 1)
            IN  rleDecodeLoop(input, i + 1 + Len(numStr),
                              result \o Repeat(".", DigitsToNat(numStr, 0)))
       ELSE rleDecodeLoop(input, i + 1, result \o <<input[i]>>)

runLengthDecode(input) == rleDecodeLoop(input, 1, <<>>)

(***************************************************************************)
(* Base64 (Buffer / btoa / atob), on the printable ASCII characters 32 to  *)
(* 126 (the grave accent, code 96, is named: no text of the model has it). *)
(***************************************************************************)
Printable ==
  <<" ", "!", "\"", "#", "$", "%", "&", "'", "(", ")", "*", "+", ",", "-", ".", "/",
    "0", "1", "2", "3", "4", "5", "6", "7", "8", "9", ":", ";", "<", "=", ">", "?",
    "@", "A", "B", "C", "D", "E", "F", "G", "H", "I", "J", "K", "L", "M", "N", "O",
    "P", "Q", "R", "S", "T", "U", "V", "W", "X", "Y", "Z", "[", "\\", "]", "^", "_",
    "<grave>", "a", "b", "c", "d", "e", "f", "g", "h", "i", "j", "k", "l", "m", "n", "o",
    "p", "q", "r", "s", "t", "u", "v", "w", "x", "y", "z", "{", "|", "}", "~">>

Base64Chars ==
  <<"A", "B", "C", "D", "E", "F", "G", "H", "I", "J", "K", "L", "M", "N", "O", "P",
    "Q", "R", "S", "T", "U", "V", "W", "X", "Y", "Z", "a", "b", "c", "d", "e", "f",
    "g", "h", "i", "j", "k", "l", "m", "n", "o", "p", "q", "r", "s", "t", "u", "v",
    "w", "x", "y", "z", "0", "1", "2", "3", "4", "5", "6", "7", "8", "9", "+", "/">>

Base64Set == {Base64Chars[i] : i \in 1..64}

\* a byte that is not a printable ASCII character, whatever it decodes to
OtherByte == "<?>"

\* byte value of a character (UTF-8 and Latin-1 agree on ASCII)
CharCode == [c \in {Printable[i] : i \in 1..95} |->
               31 + (CHOOSE i \in 1..95 : Printable[i] = c)]

\* character of a byte value
CharOfByte(b) == IF b \in 32..126 THEN Printable[b - 31] ELSE OtherByte

\* 6-bit value of a base64 character
SextetOf == [c \in Base64Set |-> (CHOOSE i \in 1..64 : Base64Chars[i] = c) - 1]

RECURSIVE Base64Encode(_)
\* RFC 4648 base64 with padding: Buffer.toString in base64, and btoa
Base64Encode(s) ==
  IF s = <<>> THEN <<>>
  ELSE LET n  == Len(s)
           b1 == CharCode[s[1]]
           b2 == IF n >= 2 THEN CharCode[s[2]] ELSE 0
           b3 == IF n >= 3 THEN CharCode[s[3]] ELSE 0
           c1 == Base64Chars[(b1 \div 4) + 1]
           c2 == Base64Chars[((b1 % 4) * 16) + (b2 \div 16) + 1]
           c3 == IF n >= 2 THEN Base64Chars[((b2 % 16) * 4) + (b3 \div 64) + 1] ELSE "="
           c4 == IF n >= 3 THEN Base64Chars[(b3 % 64) + 1] ELSE "="
       IN  <<c1, c2, c3, c4>> \o (IF n > 3 THEN Base64Encode(SubSeq(s, 4, n)) ELSE <<>>)

\* String.prototype.replace(/c/g, d)
ReplaceAll(s, c, d) == [i \in 1..Len(s) |-> IF s[i] = c THEN d ELSE s[i]]

RECURSIVE StripTrailing(_, _)
\* String.prototype.replace of a trailing run of c by the empty text
StripTrailing(s, c) == IF s # <<>> /\ s[Len(s)] = c
                       THEN StripTrailing(SubSeq(s, 1, Len(s) - 1), c)
                       ELSE s

RECURSIVE SextetsToText(_)
\* the characters of a run of 6-bit values; an incomplete last byte is dropped
SextetsToText(q) ==
  IF Len(q) < 2 THEN <<>>
  ELSE LET b1 == (q[1] * 4) + (q[2] \div 16)
           b2 == IF Len(q) >= 3 THEN ((q[2] % 16) * 16) + (q[3] \div 4) ELSE 0
           b3 == IF Len(q) >= 4 THEN ((q[3] % 4) * 64) + q[4] ELSE 0
       IN  <<CharOfByte(b1)>>
           \o (IF Len(q) >= 3 THEN <<CharOfByte(b2)>> ELSE <<>>)
           \o (IF Len(q) >= 4 THEN <<CharOfByte(b3)>> ELSE <<>>)
           \o (IF Len(q) > 4 THEN SextetsToText(SubSeq(q, 5, Len(q))) ELSE <<>>)

\* Buffer.from(s, base64).toString(utf-8): never throws; reading stops at
\* the first padding character, characters outside the alphabet are skipped
BufferFromBase64(s) ==
  LET stop  == IndexOf(s, "=")
      body  == IF stop = 0 THEN s ELSE SubSeq(s, 1, stop - 1)
      std   == ReplaceAll(ReplaceAll(body, "-", "+"), "_", "/")
      clean == SelectSeq(std, LAMBDA c : c \in Base64Set)
  IN  SextetsToText([i \in 1..Len(clean) |-> SextetOf[clean[i]]])

\* atob(s): throws InvalidCharacterError on a character outside the alphabet
\* or on a length of 1 modulo 4 (forgiving-base64 decode)
Atob(s) ==
  LET nows == SelectSeq(s, LAMBDA c : c # " ")
      n    == Len(nows)
      data == IF n % 4 = 0 /\ n >= 2 /\ nows[n] = "=" /\ nows[n - 1] = "="
              THEN SubSeq(nows, 1, n - 2)
              ELSE IF n % 4 = 0 /\ n >= 1 /\ nows[n] = "="
              THEN SubSeq(nows, 1, n - 1)
              ELSE nows
      bad  == Len(data) % 4 = 1 \/ \E i \in 1..Len(data) : data[i] \notin Base64Set
  IN  IF bad THEN [threw |-> TRUE, text |-> <<>>]
      ELSE [threw |-> FALSE,
            text |-> SextetsToText([i \in 1..Len(data) |-> SextetOf[data[i]]])]

\* the input padded to a multiple of 4 characters
PadBase64(input) == input \o Repeat("=", (4 - (Len(input) % 4)) % 4)

\* base64 with its padding kept
base64urlEncode_Padded(input) ==
  ReplaceAll(ReplaceAll(Base64Encode(input), "+", "-"), "/", "_")

\* server.ts base64urlEncode
base64urlEncode(input) ==
  StripTrailing(ReplaceAll(ReplaceAll(Base64Encode(input), "+", "-"), "/", "_"), "=")

\* server.ts base64urlDecode
base64urlDecode(input) ==
  BufferFromBase64(ReplaceAll(ReplaceAll(PadBase64(input), "-", "+"), "_", "/"))

(***************************************************************************)
(* JSON.stringify / JSON.parse on the parameter block: texts without       *)
(* white space, whose values are integers, null, true, false or strings    *)
(* without escapes, and objects of such values.                            *)
(***************************************************************************)
KeyMaxEnemies == <<"m", "a", "x", "E", "n", "e", "m", "i", "e", "s">>
KeyEnemySpawnChance ==
  <<"e", "n", "e", "m", "y", "S", "p", "a", "w", "n", "C", "h", "a", "n", "c", "e">>
KeyCoinSpawnChance ==
  <<"c", "o", "i", "n", "S", "p", "a", "w", "n", "C", "h", "a", "n", "c", "e">>

Quote(s) == <<"\"">> \o s \o <<"\"">>

RECURSIVE JoinMembers(_)
JoinMembers(members) ==
  IF members = <<>> THEN <<>>
  ELSE Quote(members[1][1]) \o <<":">> \o IntToStr(members[1][2].val)
       \o (IF Len(members) > 1 THEN <<",">> \o JoinMembers(Tail(members)) ELSE <<>>)

\* JSON.stringify of an object whose values are finite integers;
\* members is the sequence of <<key, value>> in insertion order
JsonStringify(members) == <<"{">> \o JoinMembers(members) \o <<"}">>

IsStringLiteral(t) ==
  /\ Len(t) >= 2
  /\ t[1] = "\"" /\ t[Len(t)] = "\""
  /\ \A i \in 2..(Len(t) - 1) : t[i] # "\"" /\ t[i] # "\\"

IsNumberLiteral(t) ==
  LET d == IF t # <<>> /\ t[1] = "-" THEN Tail(t) ELSE t
  IN  d # <<>> /\ AllDigits(d) /\ (Len(d) > 1 => d[1] # "0")

\* a JSON value that is not an object; type error is a SyntaxError
ParseScalar(t) ==
  IF t = <<"n", "u", "l", "l">> THEN Null
  ELSE IF t = <<"t", "r", "u", "e">> THEN Bool(TRUE)
  ELSE IF t = <<"f", "a", "l", "s", "e">> THEN Bool(FALSE)
  ELSE IF IsNumberLiteral(t) THEN ToNumber(t)
  ELSE IF IsStringLiteral(t) THEN Str
  ELSE [type |-> "error", val |-> 0]

\* one key:value member; the empty tuple when it is malformed
ParseMember(m) ==
  LET parts == Split(m, ":")
  IN  IF Len(parts) = 2 /\ IsStringLiteral(parts[1])
         /\ ParseScalar(parts[2]).type # "error"
      THEN <<SubSeq(parts[1], 2, Len(parts[1]) - 1), ParseScalar(parts[2])>>
      ELSE <<>>

\* JSON.parse(t): [threw, type, members]; members are the <<key, value>>
\* pairs of an object, in text order
JsonParse(t) ==
  IF Len(t) >= 2 /\ t[1] = "{" /\ t[Len(t)] = "}"
  THEN LET inner == SubSeq(t, 2, Len(t) - 1)
           texts == IF inner = <<>> THEN <<>> ELSE Split(inner, ",")
           ms    == [i \in 1..Len(texts) |-> ParseMember(texts[i])]
       IN  IF \E i \in 1..Len(ms) : ms[i] = <<>>
           THEN [threw |-> TRUE, value |-> Undefined, members |-> <<>>]
           ELSE [threw |-> FALSE, value |-> [type |-> "object", val |-> 0], members |-> ms]
  ELSE LET v == ParseScalar(t)
       IN  IF v.type = "error"
           THEN [threw |-> TRUE, value |-> Undefined, members |-> <<>>]
           ELSE [threw |-> FALSE, value |-> v, members |-> <<>>]

\* the empty object literal {}
EmptyObject == [threw |-> FALSE, value |-> [type |-> "object", val |-> 0], members |-> <<>>]

\* params.key on a parsed value that is not null: the last member of that
\* name, undefined when there is none or when the value is not an object
GetProp(parsed, key) ==
  LET hits == {i \in 1..Len(parsed.members) : parsed.members[i][1] = key}
  IN  IF hits = {} THEN Undefined
      ELSE parsed.members[CHOOSE i \in hits : \A j \in hits : j <= i][2]

(***************************************************************************)
(* The level codec of the server (server.ts).                              *)
(*                                                                         *)
(* A level payload is a record with the fields tiles (a sequence of rows,  *)
(* each a sequence of tile ids) and maxEnemies, enemySpawnChance,          *)
(* coinSpawnChance (JavaScript values).  The result of a decode is a       *)
(* record with threw = TRUE when the call raised, and otherwise the fields *)
(* of the returned object.                                                 *)
(***************************************************************************)
RECURSIVE TileString(_)
\* the two nested for-loops that append one character per tile
TileString(tiles) ==
  IF tiles = <<>> THEN <<>>
  ELSE [x \in 1..Len(tiles[1]) |-> TileToChar(tiles[1][x])] \o TileString(Tail(tiles))

\* FiniteParams keeping every parameter that is not undefined
FiniteParams_Defined(payload) ==
  (IF payload.maxEnemies # Undefined
   THEN <<<<KeyMaxEnemies, payload.maxEnemies>>>> ELSE <<>>)
  \o (IF payload.enemySpawnChance # Undefined
      THEN <<<<KeyEnemySpawnChance, payload.enemySpawnChance>>>> ELSE <<>>)
  \o (IF payload.coinSpawnChance # Undefined
      THEN <<<<KeyCoinSpawnChance, payload.coinSpawnChance>>>> ELSE <<>>)

\* the members of the params object, in the order the code assigns them
FiniteParams(payload) ==
  (IF IsFinite(payload.maxEnemies) THEN <<<<KeyMaxEnemies, payload.maxEnemies>>>> ELSE <<>>)
  \o (IF IsFinite(payload.enemySpawnChance)
      THEN <<<<KeyEnemySpawnChance, payload.enemySpawnChance>>>> ELSE <<>>)
  \o (IF IsFinite(payload.coinSpawnChance)
      THEN <<<<KeyCoinSpawnChance, payload.coinSpawnChance>>>> ELSE <<>>)

\* encodePayload writing the height before the width
encodePayload_Swapped(payload) ==
  LET tiles      == payload.tiles
      height     == Len(tiles)
      width      == IF tiles # <<>> THEN Len(tiles[1]) ELSE 0
      tileString == runLengthEncode(TileString(tiles))
      encoded    == NatToStr(height) \o <<"x">> \o NatToStr(width) \o <<":">> \o tileString
      params     == FiniteParams(payload)
  IN  IF Len(params) > 0
      THEN encoded \o <<"|">> \o base64urlEncode(JsonStringify(params))
      ELSE encoded

\* the text that encodeLevel hands to the outer base64urlEncode
encodePayload(payload) ==
  LET tiles      == payload.tiles
      height     == Len(tiles)
      width      == IF tiles # <<>> THEN Len(tiles[1]) ELSE 0
      tileString == runLengthEncode(TileString(tiles))
      encoded    == NatToStr(width) \o <<"x">> \o NatToStr(height) \o <<":">> \o tileString
      params     == FiniteParams(payload)
  IN  IF Len(params) > 0
      THEN encoded \o <<"|">> \o base64urlEncode(JsonStringify(params))
      ELSE encoded

encodeLevel(payload) == base64urlEncode(encodePayload(payload))

\* a call that raised
Threw(error) ==
  [threw |-> TRUE, error |-> error, tiles |-> <<>>, width |-> Undefined,
   height |-> Undefined, maxEnemies |-> Undefined, enemySpawnChance |-> Undefined,
   coinSpawnChance |-> Undefined]

\* number of iterations of for (i = 0; i < n; i += 1)
LoopCount(n) == IF JsLess(Num(0), n) THEN n.val ELSE 0

\* SliceTiles reading the text column by column
SliceTiles_ColumnMajor(tileString, width, height) ==
  [y \in 1..LoopCount(height) |->
     [x \in 1..LoopCount(width) |->
        LET index == ((x - 1) * LoopCount(height)) + y
        IN  charTiles(IF index <= Len(tileString) THEN tileString[index] ELSE ".")]]

\* the tiles built by the two nested loops of decode:
\* tileString[index] is undefined past the end of the text
SliceTiles(tileString, width, height) ==
  [y \in 1..LoopCount(height) |->
     [x \in 1..LoopCount(width) |->
        LET index == ((y - 1) * LoopCount(width)) + x
        IN  charTiles(IF index <= Len(tileString) THEN tileString[index] ELSE ".")]]

\* a reading of the parameter section that finds no parameter
ParseParams_None(paramsData) == EmptyObject

\* the try/catch around JSON.parse(base64urlDecode(paramsData))
ParseParams(paramsData) ==
  LET parsed == JsonParse(base64urlDecode(paramsData))
  IN  IF parsed.threw THEN EmptyObject ELSE parsed

decodeLevel(encodedLevel) ==
  LET decoded    == base64urlDecode(encodedLevel)
      hasParams  == Includes(decoded, "|")
      pieces     == Split(decoded, "|")
      mainData   == IF hasParams THEN pieces[1] ELSE decoded
      params     == IF hasParams THEN ParseParams(pieces[2]) ELSE EmptyObject
      parts      == Split(mainData, ":")
      dimensions == parts[1]
      tileData   == At(parts, 2)
      dims       == Split(dimensions, "x")
      width      == ToNumber(At(dims, 1))
      height     == ToNumber(At(dims, 2))
  IN  IF tileData = NoText
      THEN Threw("TypeError")   \* runLengthDecode reads input.length of undefined
      ELSE IF params.value.type = "null"
      THEN Threw("TypeError")   \* params.maxEnemies reads a property of null
      ELSE [threw |-> FALSE, error |-> "none",
            tiles |-> SliceTiles(runLengthDecode(tileData), width, height),
            width |-> width, height |-> height,
            maxEnemies |-> GetProp(params, KeyMaxEnemies),
            enemySpawnChance |-> GetProp(params, KeyEnemySpawnChance),
            coinSpawnChance |-> GetProp(params, KeyCoinSpawnChance)]

(***************************************************************************)
(* The level codec of the editor UI (mcp-app.ts, class LevelEncoder).      *)
(***************************************************************************)
\* the text appended when a run ends
LevelEncoder_EmitRun(current, count) ==
  IF current = "." /\ count > 2 THEN <<".">> \o NatToStr(count)
  ELSE Repeat(current, count)

RECURSIVE LevelEncoder_rleEncodeLoop(_, _, _, _, _)
LevelEncoder_rleEncodeLoop(input, i, result, count, current) ==
  IF i > Len(input) THEN result \o LevelEncoder_EmitRun(current, count)
  ELSE IF input[i] = current /\ current = "."
       THEN LevelEncoder_rleEncodeLoop(input, i + 1, result, count + 1, current)
       ELSE LevelEncoder_rleEncodeLoop(input, i + 1,
                                       result \o LevelEncoder_EmitRun(current, count),
                                       1, input[i])

LevelEncoder_runLengthEncode(input) ==
  IF input = <<>> THEN input
  ELSE LevelEncoder_rleEncodeLoop(input, 2, <<>>, 1, input[1])

RECURSIVE LevelEncoder_rleDecodeLoop(_, _, _)
LevelEncoder_rleDecodeLoop(input, i, result) ==
  IF i > Len(input) THEN result
  ELSE IF input[i] = "." /\ i + 1 <= Len(input) /\ IsDigit(input[i + 1])
       THEN LET numStr == DigitRun(input, i + 1)
                count  == ToNumber(numStr).val
            IN  LevelEncoder_rleDecodeLoop(input, i + 1 + Len(numStr),
                                           result \o Repeat(".", count))
       ELSE LevelEncoder_rleDecodeLoop(input, i + 1, result \o <<input[i]>>)

LevelEncoder_runLengthDecode(input) == LevelEncoder_rleDecodeLoop(input, 1, <<>>)

\* btoa, then the three replacements
LevelEncoder_base64urlEncode(input) ==
  StripTrailing(ReplaceAll(ReplaceAll(Base64Encode(input), "+", "-"), "/", "_"), "=")

\* pad, replace, atob: [threw, text]
LevelEncoder_base64urlDecode(input) ==
  Atob(ReplaceAll(ReplaceAll(PadBase64(input), "-", "+"), "_", "/"))

LevelEncoder_encodePayload(level) ==
  LET tiles      == level.tiles
      height     == Len(tiles)
      width      == IF tiles # <<>> THEN Len(tiles[1]) ELSE 0
      tileString == LevelEncoder_runLengthEncode(TileString(tiles))
      encoded    == NatToStr(width) \o <<"x">> \o NatToStr(height) \o <<":">> \o tileString
      params     == FiniteParams(level)
  IN  IF Len(params) > 0
      THEN encoded \o <<"|">> \o LevelEncoder_base64urlEncode(JsonStringify(params))
      ELSE encoded

LevelEncoder_encode(level) == LevelEncoder_base64urlEncode(LevelEncoder_encodePayload(level))

\* the try/catch around JSON.parse(this.base64urlDecode(paramsData))
LevelEncoder_ParseParams(paramsData) ==
  LET text   == LevelEncoder_base64urlDecode(paramsData)
      parsed == JsonParse(text.text)
  IN  IF text.threw \/ parsed.threw THEN EmptyObject ELSE parsed

LevelEncoder_decode(encodedLevel) ==
  LET text       == LevelEncoder_base64urlDecode(encodedLevel)
      decoded    == text.text
      hasParams  == Includes(decoded, "|")
      pieces     == Split(decoded, "|")
      mainData   == IF hasParams THEN pieces[1] ELSE decoded
      params     == IF hasParams THEN LevelEncoder_ParseParams(pieces[2]) ELSE EmptyObject
      parts      == Split(mainData, ":")
      dimensions == parts[1]
      tileData   == At(parts, 2)
      dims       == Split(dimensions, "x")
      width      == ToNumber(At(dims, 1))
      height     == ToNumber(At(dims, 2))
  IN  IF text.threw
      THEN Threw("InvalidCharacterError")
      ELSE IF dimensions = <<>> \/ tileData = NoText \/ tileData = <<>>
      THEN Threw("Invalid encoded level")
      ELSE IF params.value.type = "null"
      THEN Threw("TypeError")   \* params.maxEnemies reads a property of null
      ELSE [threw |-> FALSE, error |-> "none",
            tiles |-> SliceTiles(LevelEncoder_runLengthDecode(tileData), width, height),
            width |-> width, height |-> height,
            maxEnemies |-> GetProp(params, KeyMaxEnemies),
            enemySpawnChance |-> GetProp(params, KeyEnemySpawnChance),
            coinSpawnChance |-> GetProp(params, KeyCoinSpawnChance)]

(***************************************************************************)
(* The decoder injected into the game page (mcp-app.ts, decodeFullLevel).  *)
(***************************************************************************)
\* replace, pad in a loop, atob: [threw, text]
Game_base64urlDecode(str) ==
  LET base64 == ReplaceAll(ReplaceAll(str, "-", "+"), "_", "/")
  IN  Atob(base64 \o Repeat("=", (4 - (Len(base64) % 4)) % 4))

\* the switch of charToTile
charToTile(c) ==
  CASE c = "." -> 0
    [] c = "G" -> 1
    [] c = "R" -> 2
    [] c = "Y" -> 3
    [] c = "I" -> 4
    [] c = "F" -> 5
    [] c = "S" -> 6
    [] c = "W" -> 7
    [] OTHER   -> 0

RECURSIVE Game_rleDecodeLoop(_, _, _)
Game_rleDecodeLoop(input, i, result) ==
  IF i > Len(input) THEN result
  ELSE IF input[i] = "." /\ i + 1 <= Len(input) /\ IsDigit(input[i + 1])
       THEN LET numStr == DigitRun(input, i + 1)
                count  == ParseInt(numStr)
            IN  Game_rleDecodeLoop(input, i + 1 + Len(numStr), result \o Repeat(".", count))
       ELSE Game_rleDecodeLoop(input, i + 1, result \o <<input[i]>>)

Game_runLengthDecode(input) == Game_rleDecodeLoop(input, 1, <<>>)

\* mainData.match(/^([0-9]+)x([0-9]+):(.*)$/): [matched, w, h, rest]
MatchFormat(mainData) ==
  LET ix == IndexOf(mainData, "x")
      ic == IndexOf(mainData, ":")
      w  == SubSeq(mainData, 1, ix - 1)
      h  == SubSeq(mainData, ix + 1, ic - 1)
  IN  IF ix > 1 /\ ic > ix + 1 /\ AllDigits(w) /\ AllDigits(h)
      THEN [matched |-> TRUE, w |-> w, h |-> h,
            rest |-> SubSeq(mainData, ic + 1, Len(mainData))]
      ELSE [matched |-> FALSE, w |-> <<>>, h |-> <<>>, rest |-> <<>>]

\* the inner try/catch that reads the three parameters over their defaults
Game_ReadParams(paramsData) ==
  LET text   == Game_base64urlDecode(paramsData)
      parsed == JsonParse(text.text)
      usable == ~text.threw /\ ~parsed.threw /\ parsed.value.type # "null"
      pick(key, default) ==
        IF usable /\ GetProp(parsed, key) # Undefined THEN GetProp(parsed, key) ELSE default
  IN  [maxEnemies |-> pick(KeyMaxEnemies, Num(5)),
       enemySpawnChance |-> pick(KeyEnemySpawnChance, Num(10)),
       coinSpawnChance |-> pick(KeyCoinSpawnChance, Num(15))]

\* the grid of a game result: tilesNull = TRUE stands for tiles: null
decodeFullLevel(encodedLevel) ==
  LET text      == Game_base64urlDecode(encodedLevel)
      decoded   == text.text
      hasParams == Includes(decoded, "|")
      parts     == Split(decoded, "|")
      mainData  == IF hasParams THEN parts[1] ELSE decoded
      defaults  == [maxEnemies |-> Num(5), enemySpawnChance |-> Num(10),
                    coinSpawnChance |-> Num(15)]
      params    == IF ~text.threw /\ hasParams THEN Game_ReadParams(parts[2]) ELSE defaults
      match     == MatchFormat(mainData)
      width     == ParseInt(match.w)
      height    == ParseInt(match.h)
      tileString == Game_runLengthDecode(match.rest)
      tiles     == [y \in 1..height |->
                      [x \in 1..width |->
                         LET idx == ((y - 1) * width) + x
                         IN  charToTile(IF idx <= Len(tileString)
                                        THEN tileString[idx] ELSE ".")]]
  IN  IF text.threw \/ ~match.matched
      THEN [tilesNull |-> TRUE, tiles |-> <<>>] @@ params
      ELSE [tilesNull |-> FALSE, tiles |-> tiles] @@ params

(***************************************************************************)
(* normalizePayload and the tool handlers (server.ts).                     *)
(*                                                                         *)
(* A LevelPayload is a record; hasTiles = FALSE stands for tiles being     *)
(* undefined, and encodedLevel = NoText for encodedLevel being undefined.  *)
(* A name or description is Undefined or Name(i), the i-th text.           *)
(***************************************************************************)
Name(i) == [type |-> "string", val |-> i]

\* the object literal { encodedLevel: encoded }
PayloadOfToken(encoded) ==
  [hasTiles |-> FALSE, tiles |-> <<>>, width |-> Undefined, height |-> Undefined,
   name |-> Undefined, description |-> Undefined,
   encodedLevel |-> encoded, encoded_level |-> NoText,
   maxEnemies |-> Undefined, enemySpawnChance |-> Undefined, coinSpawnChance |-> Undefined]

\* !s for a string or undefined
FalsyText(s) == s = NoText \/ s = <<>>

\* In the operators below, CHOOSE r \in {e : x \in {v}} : TRUE is the value of
\* e after const x = v: the value v is computed once and e reads it as x.

\* a call of normalizePayload returned p
Normalized(p) == [threw |-> FALSE, error |-> "none", payload |-> p]

\* the third step of normalizePayload: encode when there is no token
normalizeEncoded(n2) ==
  Normalized(IF n2.hasTiles /\ FalsyText(n2.encodedLevel)
             THEN [n2 EXCEPT !.encodedLevel = encodeLevel(n2)]
             ELSE n2)

\* the second step of normalizePayload: decode when there are no tiles
normalizeTiles(payload, n1) ==
  IF ~n1.hasTiles /\ n1.encodedLevel # NoText
  THEN CHOOSE r \in
         {IF dec.threw
          THEN [threw |-> TRUE, error |-> dec.error, payload |-> payload]
          ELSE normalizeEncoded(
                 [n1 EXCEPT !.hasTiles = TRUE, !.tiles = dec.tiles,
                            !.width = dec.width, !.height = dec.height,
                            !.maxEnemies = dec.maxEnemies,
                            !.enemySpawnChance = dec.enemySpawnChance,
                            !.coinSpawnChance = dec.coinSpawnChance])
            : dec \in {decodeLevel(n1.encodedLevel)}} : TRUE
  ELSE normalizeEncoded(n1)

normalizePayload(payload) ==
  normalizeTiles(payload,
                 IF FalsyText(payload.encodedLevel) /\ ~FalsyText(payload.encoded_level)
                 THEN [payload EXCEPT !.encodedLevel = payload.encoded_level]
                 ELSE payload)

\* no structuredContent in a result
NoStructured == [absent |-> TRUE]

\* a result that carries only an error text
ErrorResult(text) == [ok |-> FALSE, text |-> text, structured |-> NoStructured]

\* a result with structuredContent { ...payload, encoded_level: payload.encodedLevel }
LevelResult(text, payload) ==
  [ok |-> TRUE, text |-> text,
   structured |-> [payload EXCEPT !.encoded_level = payload.encodedLevel]]

\* the return after the last normalizePayload of a handler, or its catch
ResultOf(text, caught, normalized) ==
  IF normalized.threw THEN ErrorResult(caught)
  ELSE LevelResult(text, normalized.payload)

\* handler of decode_level_from_url
decode_level_from_url(encoded) ==
  IF encoded = <<>> THEN ErrorResult("Error: encoded_level is required.")
  ELSE ResultOf("Decoded level", "Error decoding level",
                normalizePayload(PayloadOfToken(encoded)))

\* a write that fills the whole row
WriteTile_FillRow(tiles, row, col, newTile) ==
  [tiles EXCEPT ![row + 1] = [x \in 1..Len(@) |-> newTile]]

\* tiles[row][col] = newTile for a row that exists: a col that is not an
\* index sets a property of the row and leaves its cells alone
WriteTile(tiles, row, col, newTile) ==
  IF IsInteger(col) THEN [tiles EXCEPT ![row + 1][col + 1] = newTile] ELSE tiles

\* handler of edit_level_tile; row, col and newTile are numbers
edit_level_tile(encoded, row, col, newTile) ==
  IF encoded = <<>> THEN ErrorResult("Error: encoded_level is required.")
  ELSE CHOOSE r \in {
         IF levelData.threw THEN ErrorResult("Error processing level")
         ELSE IF Len(levelData.payload.tiles) = 0
         THEN ErrorResult("Error: Invalid tiles array after decoding.")
         ELSE IF NumLess(row, 0) \/ ~NumLess(row, Len(levelData.payload.tiles))
         THEN ErrorResult("Error: Invalid row")
         ELSE IF NumLess(col, 0) \/ ~NumLess(col, Len(levelData.payload.tiles[1]))
         THEN ErrorResult("Error: Invalid column")
         ELSE IF NumLess(newTile, 0) \/ NumLess(7, newTile)
         THEN ErrorResult("Error: Invalid tile type")
         ELSE IF ~IsInteger(row)
         THEN ErrorResult("Error processing level")  \* tiles[row] is undefined: TypeError
         ELSE ResultOf("Tile updated", "Error processing level",
                       normalizePayload(
                         [levelData.payload EXCEPT
                            !.tiles = WriteTile(levelData.payload.tiles, row, col, newTile)]))
           : levelData \in {normalizePayload(PayloadOfToken(encoded))}} : TRUE

\* tiles.map((r, idx) => (idx === row ? [...newRow] : [...r]))
ReplaceRow(tiles, row, newRow) ==
  [idx \in 1..Len(tiles) |-> IF idx = row + 1 THEN newRow ELSE tiles[idx]]

\* handler of edit_level_row; row is a number, newRow an array of numbers
edit_level_row(encoded, row, newRow) ==
  IF encoded = <<>> THEN ErrorResult("Error: encoded_level is required.")
  ELSE CHOOSE r \in {
         IF levelData.threw THEN ErrorResult("Error processing level")
         ELSE IF Len(levelData.payload.tiles) = 0
         THEN ErrorResult("Error: Invalid tiles array after decoding.")
         ELSE IF NumLess(row, 0) \/ ~NumLess(row, Len(levelData.payload.tiles))
         THEN ErrorResult("Error: Invalid row")
         ELSE IF Len(newRow) # Len(levelData.payload.tiles[1])
         THEN ErrorResult("Error: Row length mismatch")
         ELSE ResultOf("Row updated", "Error processing level",
                       normalizePayload(
                         [levelData.payload EXCEPT
                            !.tiles = ReplaceRow(levelData.payload.tiles, row, newRow)]))
           : levelData \in {normalizePayload(PayloadOfToken(encoded))}} : TRUE

\* a ?? b
Coalesce(a, b) == IF a = Undefined \/ a = Null THEN b ELSE a

\* handler of edit_level_metadata; args has the five optional arguments
edit_level_metadata(encoded, args) ==
  IF encoded = <<>> THEN ErrorResult("Error: encoded_level is required.")
  ELSE CHOOSE r \in {
         IF levelData.threw THEN ErrorResult("Error processing level")
         ELSE ResultOf("Metadata updated", "Error processing level",
                normalizePayload(
                  [levelData.payload EXCEPT
                     !.name = Coalesce(args.new_name, @),
                     !.description = Coalesce(args.new_description, @),
                     !.maxEnemies = Coalesce(args.max_enemies, @),
                     !.enemySpawnChance = Coalesce(args.enemy_spawn_chance, @),
                     !.coinSpawnChance = Coalesce(args.coin_spawn_chance, @)]))
           : levelData \in {normalizePayload(PayloadOfToken(encoded))}} : TRUE

\* the object literal of a handler that is given tiles
PayloadOfTiles(tiles, width, height, name, description, me, es, cs) ==
  [hasTiles |-> TRUE, tiles |-> tiles, width |-> width, height |-> height,
   name |-> name, description |-> description,
   encodedLevel |-> NoText, encoded_level |-> NoText,
   maxEnemies |-> me, enemySpawnChance |-> es, coinSpawnChance |-> cs]

\* newTiles[0]?.length ?? 0
FirstRowLength(tiles) == IF tiles = <<>> THEN 0 ELSE Len(tiles[1])

\* handler of edit_entire_level: no try, and nothing in it throws
edit_entire_level(args) ==
  LevelResult("Level updated",
              normalizePayload(
                PayloadOfTiles(args.new_tiles,
                               Num(FirstRowLength(args.new_tiles)), Num(Len(args.new_tiles)),
                               args.new_name, args.new_description,
                               args.max_enemies, args.enemy_spawn_chance,
                               args.coin_spawn_chance)).payload)

\* handler of create_level: width and height are the arguments as given
create_level(args) ==
  LevelResult("Created level",
              normalizePayload(
                PayloadOfTiles(args.tiles, args.width, args.height,
                               args.level_name, args.description,
                               args.maxEnemies, args.enemySpawnChance,
                               args.coinSpawnChance)).payload)

(***************************************************************************)
(* The editor (mcp-app.ts).  A level is a record with the fields of        *)
(* LevelData; width and height are JavaScript numbers; the text and number *)
(* inputs of the form hold what Number(value) or value.trim() reads.       *)
(***************************************************************************)
EmptyName == Name(0)
UntitledLevel == Name(1)

\* ToLength of Array.from({ length: n }): NaN and negatives give 0, a
\* number that is not an integer is cut down to one
ToLength(n) ==
  IF n.type # "number" THEN 0
  ELSE IF IsInteger(n.val) THEN (IF n.val < 0 THEN 0 ELSE n.val)
  ELSE n.val - HalfBase

\* a >= b for two JavaScript numbers, false when one of them is NaN
JsGreaterEq(a, b) == a.type = "number" /\ b.type = "number" /\ ~NumLess(a.val, b.val)

createEmptyLevel(width, height) ==
  [tiles |-> [y \in 1..height |-> [x \in 1..width |-> 0]],
   width |-> Num(width), height |-> Num(height),
   name |-> UntitledLevel, description |-> EmptyName,
   maxEnemies |-> Undefined, enemySpawnChance |-> Undefined,
   coinSpawnChance |-> Undefined, encodedLevel |-> NoText]

\* refreshEncoded
refreshEncoded(lv) == [lv EXCEPT !.encodedLevel = LevelEncoder_encode(lv)]

\* the form after syncInputsFromLevel
InputsFromLevel(lv) ==
  [name |-> Coalesce(lv.name, EmptyName),
   description |-> Coalesce(lv.description, EmptyName),
   maxEnemies |-> Coalesce(lv.maxEnemies, Num(5)),
   enemySpawn |-> Coalesce(lv.enemySpawnChance, Num(10)),
   coinSpawn |-> Coalesce(lv.coinSpawnChance, Num(15))]

\* the level after syncInputsFromLevel, which ends in refreshEncoded
syncInputsFromLevel(lv) == refreshEncoded(lv)

\* the level after syncLevelFromInputs
syncLevelFromInputs(lv, in) ==
  [lv EXCEPT !.name = IF in.name = EmptyName THEN UntitledLevel ELSE in.name,
             !.description = in.description,
             !.maxEnemies = in.maxEnemies,
             !.enemySpawnChance = in.enemySpawn,
             !.coinSpawnChance = in.coinSpawn]

\* currentLevel.tiles[y]?.[x] ?? 0, y and x counted from 1
OldTileOrEmpty(tiles, y, x) ==
  IF y <= Len(tiles) /\ x <= Len(tiles[y]) THEN tiles[y][x] ELSE 0

\* newTiles of resizeLevel
ResizedTiles(tiles, width, height) ==
  [y \in 1..ToLength(height) |-> [x \in 1..ToLength(width) |-> OldTileOrEmpty(tiles, y, x)]]

\* the level after resizeLevel(width, height)
resizeLevel(lv, width, height) ==
  syncInputsFromLevel([lv EXCEPT !.width = width, !.height = height,
                                 !.tiles = ResizedTiles(lv.tiles, width, height)])

\* the level after loadLevel(level): width and height as given, or those of
\* the tiles when they are undefined or null
loadLevel(level) ==
  syncInputsFromLevel(
    [level EXCEPT !.width = Coalesce(level.width, Num(FirstRowLength(level.tiles))),
                  !.height = Coalesce(level.height, Num(Len(level.tiles)))])

\* the LevelData that LevelEncoder.decode returns for a token
DecodedLevel(dec, encoded) ==
  [tiles |-> dec.tiles, width |-> dec.width, height |-> dec.height,
   name |-> Undefined, description |-> Undefined,
   maxEnemies |-> dec.maxEnemies, enemySpawnChance |-> dec.enemySpawnChance,
   coinSpawnChance |-> dec.coinSpawnChance, encodedLevel |-> encoded]

\* loadEncoded(encoded): [level, status]; the catch leaves currentLevel alone
loadEncoded(lv, encoded) ==
  CHOOSE r \in {
    IF dec.threw THEN [level |-> lv, status |-> "Invalid encoded level"]
    ELSE [level |-> loadLevel([DecodedLevel(dec, encoded) EXCEPT
                                 !.name = Coalesce(lv.name, Undefined),
                                 !.description = Coalesce(lv.description, EmptyName)]),
          status |-> "Decoded"]
      : dec \in {LevelEncoder_decode(encoded)}} : TRUE

\* a ?? b for two texts
CoalesceText(a, b) == IF a = NoText THEN b ELSE a

\* arguments or structuredContent that carry nothing
NoData ==
  [hasTiles |-> FALSE, tiles |-> <<>>, width |-> Undefined, height |-> Undefined,
   name |-> Undefined, level_name |-> Undefined, description |-> Undefined,
   maxEnemies |-> Undefined, max_enemies |-> Undefined,
   enemySpawnChance |-> Undefined, enemy_spawn_chance |-> Undefined,
   coinSpawnChance |-> Undefined, coin_spawn_chance |-> Undefined,
   encodedLevel |-> NoText, encoded_level |-> NoText]

\* the arguments of a tool that takes a token
DataOfToken(encoded) == [NoData EXCEPT !.encoded_level = encoded]

\* the arguments of create_level
DataOfCreateLevel(args) ==
  [NoData EXCEPT !.hasTiles = TRUE, !.tiles = args.tiles,
                 !.width = args.width, !.height = args.height,
                 !.level_name = args.level_name, !.description = args.description,
                 !.maxEnemies = args.maxEnemies,
                 !.enemySpawnChance = args.enemySpawnChance,
                 !.coinSpawnChance = args.coinSpawnChance]

\* the structuredContent of a level result of the server
DataOfResult(result) ==
  LET p == result.structured
  IN  [NoData EXCEPT !.hasTiles = p.hasTiles, !.tiles = p.tiles,
                     !.width = p.width, !.height = p.height,
                     !.name = p.name, !.description = p.description,
                     !.maxEnemies = p.maxEnemies,
                     !.enemySpawnChance = p.enemySpawnChance,
                     !.coinSpawnChance = p.coinSpawnChance,
                     !.encodedLevel = p.encodedLevel,
                     !.encoded_level = p.encoded_level]

\* what ontoolinput and ontoolresult do with the arguments or the
\* structuredContent d (levelData is data, the server sends no level_data)
\* once the overlay is set: [level, status]
LoadFromTool(lv, d, status) ==
  LET encoded == CoalesceText(d.encodedLevel, d.encoded_level)
  IN  IF ~FalsyText(encoded) /\ ~d.hasTiles THEN loadEncoded(lv, encoded)
      ELSE IF d.hasTiles
      THEN [level |-> loadLevel(
              [tiles |-> d.tiles,
               width |-> Coalesce(d.width, Num(FirstRowLength(d.tiles))),
               height |-> Coalesce(d.height, Num(Len(d.tiles))),
               name |-> Coalesce(d.name, d.level_name),
               description |-> d.description,
               maxEnemies |-> Coalesce(d.maxEnemies, d.max_enemies),
               enemySpawnChance |-> Coalesce(d.enemySpawnChance, d.enemy_spawn_chance),
               coinSpawnChance |-> Coalesce(d.coinSpawnChance, d.coin_spawn_chance),
               encodedLevel |-> encoded]),
            status |-> "Loaded"]
      ELSE [level |-> lv, status |-> status]

\* a paint that leaves the token as it was
paintTile_NoRefresh(lv, row, col, id) == [lv EXCEPT !.tiles[row + 1][col + 1] = id]

\* the level after paintTile on the cell (row, col) with the tile id selected
paintTile(lv, row, col, id) == refreshEncoded([lv EXCEPT !.tiles[row + 1][col + 1] = id])

(***************************************************************************)
(* Inputs of the codec.                                                    *)
(***************************************************************************)
\* every h-by-w grid over the tile ids of T
GridsOver(T, w, h) == [1..h -> [1..w -> T]]

\* the example of the specification: 3x2, Grass Empty Empty / Empty Empty Rock
ExampleGrid == <<<<1, 0, 0>>, <<0, 0, 2>>>>

\* one row of k empty tiles closed by a Water tile
LongRow(k) == <<[x \in 1..(k + 1) |-> IF x <= k THEN 0 ELSE 7]>>

Grids ==
  UNION {IF w * h <= MaxCells THEN GridsOver({0, 1}, w, h) ELSE {} :
           w \in 1..MaxW, h \in 1..MaxH}
  \cup GridsOver(0..7, 1, 1) \cup GridsOver(0..7, 2, 1) \cup GridsOver(0..7, 1, 2)
  \cup {LongRow(k) : k \in 0..MaxRun}
  \cup {ExampleGrid}

\* grids with tile ids that are not in the table: negative, above 7, not an
\* integer
BadTiles == {0 - 1, 8, Half(1)}

MixedRow == <<<<1, 8, 0, Half(1), 0 - 1>>>>

BadTileGrids ==
  GridsOver({0, 1} \cup BadTiles, 1, 1) \cup GridsOver({0, 1} \cup BadTiles, 2, 1)
  \cup GridsOver({0, 1} \cup BadTiles, 1, 2) \cup {MixedRow}

\* grids that are not rectangles of at least one cell: no row, one empty
\* row, rows of different lengths
OddGrids == {<<>>, <<<<>>>>, <<<<1>>, <<0, 2>>>>, <<<<1, 0>>, <<2>>>>}

\* what a caller may pass for one gameplay parameter
ParamValues == {Undefined, NaN, Infinity, Num(0), Num(0 - 1), Num(MaxParam)}

Level(tiles, me, es, cs) ==
  [tiles |-> tiles, maxEnemies |-> me, enemySpawnChance |-> es, coinSpawnChance |-> cs]

Levels ==
  {Level(g, Undefined, Undefined, Undefined) : g \in Grids \cup BadTileGrids \cup OddGrids}
  \cup {Level(g, Num(5), Num(10), Num(15)) : g \in Grids}
  \cup {Level(ExampleGrid, me, es, cs) : me \in ParamValues, es \in ParamValues,
                                         cs \in ParamValues}

\* no level: the token comes from outside
NoLevel == [absent |-> TRUE]

\* dimension texts: well formed, then malformed
GoodDims == {NatToStr(w) \o <<"x">> \o NatToStr(h) : w \in 1..MaxW, h \in 1..MaxH}

BadDims == {<<"3", "2">>, <<"x", "2">>, <<"3", "x">>, <<"a", "x", "2">>,
            <<"3", "x", "b">>, <<"x">>, <<>>}

\* tile bodies: empty, short, compressed, with an unknown character, with a
\* second colon
Bodies == {<<>>, <<"G">>, <<"G", "R">>, <<".", "3">>, <<".", "0">>,
           <<"G", ".", "4", "R">>, <<".", ".">>, <<"G", ":", "R">>,
           <<"G", "z", ".", "W">>, <<".", "1", "2">>, <<"W", ".", "2", "S">>}

\* parameter sections, each with its leading bar
ParamSections ==
  {<<>>,
   <<"|">>,
   <<"|", "!", "!">>,
   <<"|">> \o base64urlEncode(<<"a", "b", "c">>),
   <<"|">> \o base64urlEncode(<<"n", "u", "l", "l">>),
   <<"|">> \o base64urlEncode(<<"7">>),
   <<"|">> \o base64urlEncode(<<"\"", "s", "\"">>),
   <<"|">> \o base64urlEncode(JsonStringify(<<<<KeyMaxEnemies, Num(7)>>>>)),
   <<"|">> \o base64urlEncode(JsonStringify(<<<<KeyCoinSpawnChance, Num(3)>>>>))
           \o <<"|", "x">>}

NotALevel == <<"n", "o", "t", "-", "a", "-", "l", "e", "v", "e", "l">>

\* a payload whose parameter text has a bar in its middle
BarInSection ==
  LET b64 == base64urlEncode(JsonStringify(<<<<KeyMaxEnemies, Num(7)>>>>))
  IN  <<"3", "x", "1", ":", "G", "|">> \o SubSeq(b64, 1, 8) \o <<"|">>
        \o SubSeq(b64, 9, Len(b64))

ExternalPayloads ==
  {d \o <<":">> \o b \o p : d \in GoodDims \cup BadDims, b \in Bodies, p \in ParamSections}
  \cup {NotALevel, BarInSection, <<>>, <<"3", "x", "2">>, <<"3", "x", "2", "G", "R">>,
        <<"3", "x", "2", "G">> \o <<"|">>
          \o base64urlEncode(JsonStringify(<<<<KeyMaxEnemies, Num(7)>>>>))}

\* tokens that are not the base64 of anything
RawTokens == {<<"!", "!", "!">>, <<"A">>}

ExternalTokens == {base64urlEncode(p) : p \in ExternalPayloads} \cup RawTokens

\* tile strings handed to runLengthEncode: every string of up to MaxRleLen
\* characters over three tile characters, every string of up to two
\* characters over the whole alphabet, runs of dots between two tiles, and
\* the two examples of the specification
GGddRR == <<"G", "G", ".", ".", "R", "R">>
GddddR == <<"G", ".", ".", ".", ".", "R">>

RleInputs ==
  UNION {[1..n -> {".", "G", "R"}] : n \in 0..MaxRleLen}
  \cup UNION {[1..n -> TileCharSet] : n \in 0..2}
  \cup {a \o Repeat(".", n) \o b : a \in {<<>>, <<"W">>}, b \in {<<>>, <<"S">>},
                                   n \in 0..MaxRun}
  \cup {GGddRR, GddddR}

\* strings handed to runLengthDecode: every string of up to MaxRldLen
\* characters over a dot, two digits and a tile character, and every count
\* up to MaxRun between a tile, a dot, a digit or nothing and a tile, a dot
\* or nothing
RldInputs ==
  UNION {[1..n -> {".", "0", "2", "G"}] : n \in 0..MaxRldLen}
  \cup {a \o <<".">> \o NatToStr(n) \o b :
          a \in {<<>>, <<"G">>, <<".">>, <<"5">>},
          b \in {<<>>, <<"R">>, <<".">>},
          n \in 0..MaxRun}
  \cup {<<".", "0", "3", "G">>}

\* levels whose tokens are handed to the tools
ToolLevels ==
  {Level(ExampleGrid, Undefined, Undefined, Undefined),
   Level(ExampleGrid, Num(5), Undefined, Num(15)),
   Level(<<<<1, 0>>>>, Undefined, Undefined, Undefined),
   Level(<<<<7>>>>, Num(5), Num(10), Num(15)),
   Level(<<<<0, 0>>, <<0, 0>>>>, Undefined, Num(0), Undefined)}

\* payloads of tokens that do not come from encode
ToolPayloads ==
  {d \o <<":">> \o b \o p :
     d \in BadDims \cup {<<"2", "x", "2">>},
     b \in {<<>>, <<"G">>},
     p \in {<<>>, <<"|">> \o base64urlEncode(<<"n", "u", "l", "l">>)}}
  \cup {NotALevel, <<"3", "x", "2">>}

\* the empty token stands for a missing encoded_level
ToolTokens ==
  {encodeLevel(l) : l \in ToolLevels} \cup {base64urlEncode(p) : p \in ToolPayloads}
  \cup RawTokens \cup {<<>>}

\* arguments of the edit tools
RowArgs == ((0 - 1)..MaxH) \cup {Half(0)}
ColArgs == ((0 - 1)..MaxW) \cup {Half(0)}
TileArgs == {0 - 1, 0, 2, 7, 8, Half(1)}
NewRowArgs == UNION {[1..n -> {0, 2, 8}] : n \in 0..MaxW}
MetadataArgs ==
  [new_name : {Undefined, Name(2)}, new_description : {Undefined},
   max_enemies : {Undefined, Num(7)}, enemy_spawn_chance : {Undefined, Num(0)},
   coin_spawn_chance : {Undefined, Num(MaxParam)}]

\* grids handed to create_level and edit_entire_level
TileArrays == {ExampleGrid, <<<<1, 0>>>>, <<<<7>>>>, <<<<0, 0>>, <<0, 0>>>>}

EntireLevelArgs ==
  [new_tiles : TileArrays, new_name : {Undefined, Name(2)}, new_description : {Undefined},
   max_enemies : {Undefined, Num(7)}, enemy_spawn_chance : {Undefined, NaN},
   coin_spawn_chance : {Undefined, Num(MaxParam)}]

CreateLevelArgs ==
  [tiles : TileArrays, width : {Undefined, Num(3), Num(MaxW + 2)},
   height : {Undefined, Num(2)},
   level_name : {Name(1)}, description : {Name(0)},
   maxEnemies : {Undefined, Num(7)}, enemySpawnChance : {Undefined},
   coinSpawnChance : {Undefined, Num(MaxParam)}]

\* what the editor is handed: tokens typed into the text box or sent as a
\* tool argument, arguments of create_level, results of the server
EditorPayloads ==
  {<<"3", "x", "1", ":", "G", ".", "R", "|">>
     \o base64urlEncode(JsonStringify(<<<<KeyMaxEnemies, Num(7)>>>>)),
   <<"a", "x", "2", ":", "G", "R">>,
   <<"3", "x", "2">>,
   NotALevel}

EditorTokens == {base64urlEncode(p) : p \in EditorPayloads}

EditorCreateArgs ==
  [tiles : {ExampleGrid}, width : {Undefined, Num(MaxW + 2)}, height : {Undefined},
   level_name : {Name(2)}, description : {Name(0)},
   maxEnemies : {Undefined}, enemySpawnChance : {Undefined},
   coinSpawnChance : {Num(MaxParam)}]

ToolInputs ==
  {DataOfToken(t) : t \in EditorTokens} \cup {DataOfCreateLevel(a) : a \in EditorCreateArgs}

ToolResults ==
  {DataOfResult(create_level(a)) : a \in EditorCreateArgs}
  \cup {DataOfResult(decode_level_from_url(t)) :
          t \in {u \in EditorTokens : decode_level_from_url(u).ok}}

\* the sizes typed before a click on Resize
ResizeSizes ==
  {<<Num(MinResize - 1), Num(MinResize)>>, <<Num(MinResize), Num(MinResize)>>,
   <<Num(EmptyWidth + 1), Num(EmptyHeight + 1)>>,
   <<Num(Half(MinResize)), Num(MinResize)>>, <<NaN, Num(MinResize)>>}

\* ids of the palette buttons clicked
PaletteIds == {0, 7}

\* a change of one input of the form
FormChanges ==
  {<<"name", Name(0)>>, <<"name", Name(2)>>, <<"description", Name(2)>>,
   <<"maxEnemies", Num(7)>>, <<"maxEnemies", NaN>>,
   <<"enemySpawn", Num(0)>>, <<"coinSpawn", Num(MaxParam)>>}

(***************************************************************************)
(* State.                                                                  *)
(*   level    the level handed to encode, NoLevel when the token under     *)
(*            decode comes from outside                                    *)
(*   extToken the token received from outside ([present, token])           *)
(*   srvEnc, uiEnc            the encode calls ([called, ret])             *)
(*   srvDec, uiDec, gameDec   the decode calls ([called, arg, ret])        *)
(*   rleInput, rleSrv, rleUi  a tile string and the runLengthEncode calls  *)
(*   toolToken, toolCall      the encoded_level argument of a tool call    *)
(*                            and the call ([called, tool, args, ret])     *)
(*   rldInput, rldSrv, rldUi  a string and the runLengthDecode calls       *)
(*   callLog                  the codec calls of one process, in order     *)
(*                            ([op, arg, ret])                             *)
(*   srvReenc, uiReenc        the encode calls on what decode returned     *)
(***************************************************************************)
VARIABLES level, extToken, srvEnc, uiEnc, srvDec, uiDec, gameDec,
          rleInput, rleSrv, rleUi,
          toolToken, toolCall,
          rldInput, rldSrv, rldUi,
          callLog,
          srvReenc, uiReenc,
          currentLevel, inputs, statusText, activeTab, selectedTile, painting,
          ops, lastOp,
          unityCleanedUp, currentUnityInstance, windowFetch, windowAlert,
          savedFetch, savedAlert, createUnityInstanceDefined, loads, quitInstances

codecVars == <<level, extToken, srvEnc, uiEnc, srvDec, uiDec, gameDec>>
rleVars == <<rleInput, rleSrv, rleUi>>
toolVars == <<toolToken, toolCall>>
rldVars == <<rldInput, rldSrv, rldUi>>
logVars == <<callLog>>
fixVars == <<srvReenc, uiReenc>>
editorVars == <<currentLevel, inputs, statusText, activeTab, selectedTile, painting,
                ops, lastOp>>
unityVars == <<unityCleanedUp, currentUnityInstance, windowFetch, windowAlert,
               savedFetch, savedAlert, createUnityInstanceDefined, loads, quitInstances>>
vars == <<codecVars, rleVars, toolVars, rldVars, logVars, fixVars, editorVars, unityVars>>

\* what the codec calls, the run-length calls and the tool calls leave alone
outsideCodec ==
  <<rleVars, toolVars, rldVars, logVars, fixVars, editorVars, unityVars>>
outsideRle ==
  <<codecVars, toolVars, rldVars, logVars, fixVars, editorVars, unityVars>>
outsideTools ==
  <<codecVars, rleVars, rldVars, logVars, fixVars, editorVars, unityVars>>
outsideRld ==
  <<codecVars, rleVars, toolVars, logVars, fixVars, editorVars, unityVars>>
outsideLog ==
  <<codecVars, rleVars, toolVars, rldVars, fixVars, editorVars, unityVars>>
outsideFix ==
  <<codecVars, rleVars, toolVars, rldVars, logVars, editorVars, unityVars>>
outsideEditor ==
  <<codecVars, rleVars, toolVars, rldVars, logVars, fixVars, unityVars>>
outsideUnity ==
  <<codecVars, rleVars, toolVars, rldVars, logVars, fixVars, editorVars>>

NotCalled == [called |-> FALSE]
Returned(ret) == [called |-> TRUE, ret |-> ret]
Applied(arg, ret) == [called |-> TRUE, arg |-> arg, ret |-> ret]

NoToken == [present |-> FALSE]

\* the tokens a decoder can be handed in this state
Tokens ==
  (IF extToken.present THEN {extToken.token} ELSE {})
  \cup (IF srvEnc.called THEN {srvEnc.ret} ELSE {})
  \cup (IF uiEnc.called THEN {uiEnc.ret} ELSE {})

IdleCodec ==
  /\ srvEnc = NotCalled /\ uiEnc = NotCalled
  /\ srvDec = NotCalled /\ uiDec = NotCalled /\ gameDec = NotCalled

IdleRle == rleInput = <<>> /\ rleSrv = NotCalled /\ rleUi = NotCalled

IdleTools == toolToken = <<>> /\ toolCall = NotCalled

IdleRld == rldInput = <<>> /\ rldSrv = NotCalled /\ rldUi = NotCalled

IdleLog == callLog = <<>>

IdleFix == srvReenc = NotCalled /\ uiReenc = NotCalled

\* what the actions outside the editor and the player leave alone
outsideApp == <<codecVars, rleVars, toolVars, rldVars, logVars, fixVars>>

\* values of window.fetch, window.alert and of the two saved originals: the
\* function of the browser, the replacement installed by the k-th direct
\* load, or no property at all
NativeFunction == [kind |-> "native", load |-> 0]
Stub(k) == [kind |-> "stub", load |-> k]
NoFunction == [kind |-> "undefined", load |-> 0]

\* values of currentUnityInstance
NoInstance == [kind |-> "null", load |-> 0]
Instance(k) == [kind |-> "instance", load |-> k]

\* no operation yet
NoOp == [op |-> "none", before |-> NoLevel, token |-> <<>>,
         width |-> Undefined, height |-> Undefined]

\* the operation that has just completed, the level it started from and the
\* token or the size it was given
Op(op, before, token, width, height) ==
  [op |-> op, before |-> before, token |-> token, width |-> width, height |-> height]

\* the module after its last lines: buildPalette(); renderGrid();
\* syncInputsFromLevel(); the status text is the one of the page
IdleEditor ==
  /\ currentLevel = syncInputsFromLevel(createEmptyLevel(EmptyWidth, EmptyHeight))
  /\ inputs = InputsFromLevel(createEmptyLevel(EmptyWidth, EmptyHeight))
  /\ statusText = ""
  /\ activeTab = "edit"
  /\ selectedTile = 1
  /\ painting = FALSE
  /\ ops = 0
  /\ lastOp = NoOp

IdleUnity ==
  /\ unityCleanedUp = FALSE
  /\ currentUnityInstance = NoInstance
  /\ windowFetch = NativeFunction /\ windowAlert = NativeFunction
  /\ savedFetch = NoFunction /\ savedAlert = NoFunction
  /\ createUnityInstanceDefined = FALSE
  /\ loads = <<>>
  /\ quitInstances = {}

Init ==
  /\ \/ level \in Levels /\ extToken = NoToken
     \/ level = NoLevel /\ extToken \in {[present |-> TRUE, token |-> t] : t \in ExternalTokens}
  /\ IdleCodec
  /\ IdleRle
  /\ IdleTools
  /\ IdleRld
  /\ IdleLog
  /\ IdleFix
  /\ IdleEditor
  /\ IdleUnity

\* server: encodeLevel(level)
ServerEncode ==
  /\ level # NoLevel /\ ~srvEnc.called
  /\ srvEnc' = Returned(encodeLevel(level))
  /\ UNCHANGED <<level, extToken, uiEnc, srvDec, uiDec, gameDec, outsideCodec>>

\* UI: levelEncoder.encode(level)
UIEncode ==
  /\ level # NoLevel /\ ~uiEnc.called
  /\ uiEnc' = Returned(LevelEncoder_encode(level))
  /\ UNCHANGED <<level, extToken, srvEnc, srvDec, uiDec, gameDec, outsideCodec>>

\* server: decodeLevel(t)
ServerDecode ==
  /\ ~srvDec.called
  /\ \E t \in Tokens : srvDec' = Applied(t, decodeLevel(t))
  /\ UNCHANGED <<level, extToken, srvEnc, uiEnc, uiDec, gameDec, outsideCodec>>

\* UI: levelEncoder.decode(t)
UIDecode ==
  /\ ~uiDec.called
  /\ \E t \in Tokens : uiDec' = Applied(t, LevelEncoder_decode(t))
  /\ UNCHANGED <<level, extToken, srvEnc, uiEnc, srvDec, gameDec, outsideCodec>>

\* game page: decodeFullLevel(t)
GameDecode ==
  /\ ~gameDec.called
  /\ \E t \in Tokens : gameDec' = Applied(t, decodeFullLevel(t))
  /\ UNCHANGED <<level, extToken, srvEnc, uiEnc, srvDec, uiDec, outsideCodec>>

Next == ServerEncode \/ UIEncode \/ ServerDecode \/ UIDecode \/ GameDecode

Spec == Init /\ [][Next]_vars

(***************************************************************************)
(* The run-length functions on their own.                                  *)
(***************************************************************************)
InitRle ==
  /\ level = NoLevel /\ extToken = NoToken
  /\ IdleCodec
  /\ rleInput \in RleInputs
  /\ rleSrv = NotCalled /\ rleUi = NotCalled
  /\ IdleTools
  /\ IdleRld
  /\ IdleLog
  /\ IdleFix
  /\ IdleEditor
  /\ IdleUnity

\* server: runLengthEncode(rleInput)
ServerRunLengthEncode ==
  /\ ~rleSrv.called
  /\ rleSrv' = Returned(runLengthEncode(rleInput))
  /\ UNCHANGED <<rleInput, rleUi, outsideRle>>

\* UI: this.runLengthEncode(rleInput)
UIRunLengthEncode ==
  /\ ~rleUi.called
  /\ rleUi' = Returned(LevelEncoder_runLengthEncode(rleInput))
  /\ UNCHANGED <<rleInput, rleSrv, outsideRle>>

NextRle == ServerRunLengthEncode \/ UIRunLengthEncode

SpecRle == InitRle /\ [][NextRle]_vars

(***************************************************************************)
(* runLengthDecode on its own.                                             *)
(***************************************************************************)
InitRld ==
  /\ level = NoLevel /\ extToken = NoToken
  /\ IdleCodec
  /\ IdleRle
  /\ IdleTools
  /\ rldInput \in RldInputs
  /\ rldSrv = NotCalled /\ rldUi = NotCalled
  /\ IdleLog
  /\ IdleFix
  /\ IdleEditor
  /\ IdleUnity

\* server: runLengthDecode(rldInput)
ServerRunLengthDecode ==
  /\ ~rldSrv.called
  /\ rldSrv' = Returned(runLengthDecode(rldInput))
  /\ UNCHANGED <<rldInput, rldUi, outsideRld>>

\* UI: this.runLengthDecode(rldInput)
UIRunLengthDecode ==
  /\ ~rldUi.called
  /\ rldUi' = Returned(LevelEncoder_runLengthDecode(rldInput))
  /\ UNCHANGED <<rldInput, rldSrv, outsideRld>>

NextRld == ServerRunLengthDecode \/ UIRunLengthDecode

SpecRld == InitRld /\ [][NextRld]_vars

(***************************************************************************)
(* Encode, decode and encode again.                                        *)
(***************************************************************************)
InitFixed ==
  /\ level \in Levels /\ extToken = NoToken
  /\ IdleCodec
  /\ IdleRle
  /\ IdleTools
  /\ IdleRld
  /\ IdleLog
  /\ srvReenc = NotCalled /\ uiReenc = NotCalled
  /\ IdleEditor
  /\ IdleUnity

\* server: encodeLevel(decodeLevel(token)) for a token of encode
ServerReencode ==
  /\ srvDec.called /\ ~srvDec.ret.threw /\ ~srvReenc.called
  /\ srvReenc' = Returned(encodeLevel(srvDec.ret))
  /\ UNCHANGED <<uiReenc, outsideFix>>

\* UI: encoder.encode(encoder.decode(token)) for a token of encode
UIReencode ==
  /\ uiDec.called /\ ~uiDec.ret.threw /\ ~uiReenc.called
  /\ uiReenc' = Returned(LevelEncoder_encode(uiDec.ret))
  /\ UNCHANGED <<srvReenc, outsideFix>>

NextFixed ==
  \/ ServerEncode \/ UIEncode \/ ServerDecode \/ UIDecode
  \/ ServerReencode \/ UIReencode

SpecFixed == InitFixed /\ [][NextFixed]_vars

(***************************************************************************)
(* A process that calls the codec up to MaxCalls times, in any order, on   *)
(* the same or on different arguments.  Neither function reads or writes   *)
(* anything but its argument and the two constant tables.                  *)
(***************************************************************************)
CallLevels ==
  {Level(ExampleGrid, Undefined, Undefined, Undefined),
   Level(ExampleGrid, Num(5), Num(0), Num(MaxParam)),
   Level(<<<<1, 0>>>>, Undefined, Num(10), Num(15))}

CallTokens ==
  {base64urlEncode(p) : p \in {BarInSection, NotALevel}}
  \cup {callLog[i].ret : i \in {n \in 1..Len(callLog) : callLog[n].op = "encode"}}

Call(op, side, arg, ret) == [op |-> op, side |-> side, arg |-> arg, ret |-> ret]

InitCalls ==
  /\ level = NoLevel /\ extToken = NoToken
  /\ IdleCodec
  /\ IdleRle
  /\ IdleTools
  /\ IdleRld
  /\ callLog = <<>>
  /\ IdleFix
  /\ IdleEditor
  /\ IdleUnity

\* an encodeLevel that hands out the token of the call before it
CallServerEncode_Stale ==
  /\ Len(callLog) < MaxCalls
  /\ \E l \in CallLevels :
       callLog' = Append(callLog,
                         Call("encode", "server", l,
                              IF callLog # <<>> /\ callLog[Len(callLog)].op = "encode"
                              THEN callLog[Len(callLog)].ret
                              ELSE encodeLevel(l)))
  /\ UNCHANGED outsideLog

\* server: encodeLevel(l)
CallServerEncode ==
  /\ Len(callLog) < MaxCalls
  /\ \E l \in CallLevels :
       callLog' = Append(callLog, Call("encode", "server", l, encodeLevel(l)))
  /\ UNCHANGED outsideLog

\* UI: encoder.encode(l)
CallUIEncode ==
  /\ Len(callLog) < MaxCalls
  /\ \E l \in CallLevels :
       callLog' = Append(callLog, Call("encode", "ui", l, LevelEncoder_encode(l)))
  /\ UNCHANGED outsideLog

\* server: decodeLevel(t)
CallServerDecode ==
  /\ Len(callLog) < MaxCalls
  /\ \E t \in CallTokens :
       callLog' = Append(callLog, Call("decode", "server", t, decodeLevel(t)))
  /\ UNCHANGED outsideLog

\* UI: encoder.decode(t)
CallUIDecode ==
  /\ Len(callLog) < MaxCalls
  /\ \E t \in CallTokens :
       callLog' = Append(callLog, Call("decode", "ui", t, LevelEncoder_decode(t)))
  /\ UNCHANGED outsideLog

NextCalls == CallServerEncode \/ CallUIEncode \/ CallServerDecode \/ CallUIDecode

SpecCalls == InitCalls /\ [][NextCalls]_vars

(***************************************************************************)
(* The tools of the server, each called once on a token.                   *)
(***************************************************************************)
ToolCall(tool, args, ret) == [called |-> TRUE, tool |-> tool, args |-> args, ret |-> ret]

\* arguments a tool does not take
NoArgs == [row |-> 0, col |-> 0, new_tile_type |-> 0, new_row_tiles |-> <<>>,
           new_name |-> Undefined, new_description |-> Undefined,
           max_enemies |-> Undefined, enemy_spawn_chance |-> Undefined,
           coin_spawn_chance |-> Undefined,
           tiles |-> <<>>, width |-> Undefined, height |-> Undefined]

InitTools ==
  /\ level = NoLevel /\ extToken = NoToken
  /\ IdleCodec
  /\ IdleRle
  /\ toolToken \in ToolTokens
  /\ toolCall = NotCalled
  /\ IdleRld
  /\ IdleLog
  /\ IdleFix
  /\ IdleEditor
  /\ IdleUnity

DecodeLevelFromUrl ==
  /\ ~toolCall.called
  /\ toolCall' = ToolCall("decode_level_from_url", NoArgs, decode_level_from_url(toolToken))
  /\ UNCHANGED <<toolToken, outsideTools>>

EditLevelTile ==
  /\ ~toolCall.called
  /\ \E row \in RowArgs, col \in ColArgs, newTile \in TileArgs :
       toolCall' = ToolCall("edit_level_tile",
                            [NoArgs EXCEPT !.row = row, !.col = col,
                                           !.new_tile_type = newTile],
                            edit_level_tile(toolToken, row, col, newTile))
  /\ UNCHANGED <<toolToken, outsideTools>>

EditLevelRow ==
  /\ ~toolCall.called
  /\ \E row \in RowArgs, newRow \in NewRowArgs :
       toolCall' = ToolCall("edit_level_row",
                            [NoArgs EXCEPT !.row = row, !.new_row_tiles = newRow],
                            edit_level_row(toolToken, row, newRow))
  /\ UNCHANGED <<toolToken, outsideTools>>

EditLevelMetadata ==
  /\ ~toolCall.called
  /\ \E a \in MetadataArgs :
       toolCall' = ToolCall("edit_level_metadata",
                            [NoArgs EXCEPT !.new_name = a.new_name,
                                           !.new_description = a.new_description,
                                           !.max_enemies = a.max_enemies,
                                           !.enemy_spawn_chance = a.enemy_spawn_chance,
                                           !.coin_spawn_chance = a.coin_spawn_chance],
                            edit_level_metadata(toolToken, a))
  /\ UNCHANGED <<toolToken, outsideTools>>

\* edit_entire_level takes no token; its new_tiles are kept as args.tiles and
\* the width and height it computes stay out of args
EditEntireLevel ==
  /\ ~toolCall.called /\ toolToken = <<>>
  /\ \E a \in EntireLevelArgs :
       toolCall' = ToolCall("edit_entire_level",
                            [NoArgs EXCEPT !.tiles = a.new_tiles,
                                           !.new_name = a.new_name,
                                           !.new_description = a.new_description,
                                           !.max_enemies = a.max_enemies,
                                           !.enemy_spawn_chance = a.enemy_spawn_chance,
                                           !.coin_spawn_chance = a.coin_spawn_chance],
                            edit_entire_level(a))
  /\ UNCHANGED <<toolToken, outsideTools>>

\* create_level takes no token; its maxEnemies, enemySpawnChance and
\* coinSpawnChance are kept under the argument names of the edit tools
CreateLevel ==
  /\ ~toolCall.called /\ toolToken = <<>>
  /\ \E a \in CreateLevelArgs :
       toolCall' = ToolCall("create_level",
                            [NoArgs EXCEPT !.tiles = a.tiles,
                                           !.width = a.width, !.height = a.height,
                                           !.new_name = a.level_name,
                                           !.new_description = a.description,
                                           !.max_enemies = a.maxEnemies,
                                           !.enemy_spawn_chance = a.enemySpawnChance,
                                           !.coin_spawn_chance = a.coinSpawnChance],
                            create_level(a))
  /\ UNCHANGED <<toolToken, outsideTools>>

NextTools ==
  \/ DecodeLevelFromUrl \/ EditLevelTile \/ EditLevelRow \/ EditLevelMetadata
  \/ EditEntireLevel \/ CreateLevel

SpecTools == InitTools /\ [][NextTools]_vars

(***************************************************************************)
(* The editor: one action per event handler of mcp-app.ts, each run to its *)
(* end.  ops counts the events handled.                                    *)
(***************************************************************************)
InitEditor ==
  /\ level = NoLevel /\ extToken = NoToken
  /\ IdleCodec
  /\ IdleRle
  /\ IdleTools
  /\ IdleRld
  /\ IdleLog
  /\ IdleFix
  /\ IdleEditor
  /\ IdleUnity

\* the cells of the grid that the pointer is put on: the first and the last
\* cell that renderGrid built
PointerCells ==
  IF currentLevel.tiles = <<>> \/ currentLevel.tiles[1] = <<>> THEN {}
  ELSE {<<0, 0>>,
        <<Len(currentLevel.tiles) - 1, Len(currentLevel.tiles[Len(currentLevel.tiles)]) - 1>>}

Handled(op, token, width, height) ==
  /\ ops' = ops + 1
  /\ lastOp' = Op(op, currentLevel, token, width, height)

\* a palette button: selectTile(id)
SelectTile ==
  /\ ops < MaxOps
  /\ \E id \in PaletteIds : selectedTile' = id
  /\ Handled("selectTile", <<>>, Undefined, Undefined)
  /\ UNCHANGED <<currentLevel, inputs, statusText, activeTab, painting, unityVars, outsideApp>>

\* pointerdown on a cell
PointerDown ==
  /\ ops < MaxOps
  /\ \E cell \in PointerCells :
       currentLevel' = paintTile(currentLevel, cell[1], cell[2], selectedTile)
  /\ painting' = TRUE
  /\ Handled("paintTile", <<>>, Undefined, Undefined)
  /\ UNCHANGED <<inputs, statusText, activeTab, selectedTile, unityVars, outsideApp>>

\* pointerover on a cell: paints only while the button is down
PointerOver ==
  /\ ops < MaxOps
  /\ \E cell \in PointerCells :
       currentLevel' = IF painting
                       THEN paintTile(currentLevel, cell[1], cell[2], selectedTile)
                       ELSE currentLevel
  /\ Handled(IF painting THEN "paintTile" ELSE "pointerover", <<>>, Undefined, Undefined)
  /\ UNCHANGED <<inputs, statusText, activeTab, selectedTile, painting, unityVars, outsideApp>>

\* pointerup
PointerUp ==
  /\ ops < MaxOps
  /\ painting' = FALSE
  /\ Handled("pointerup", <<>>, Undefined, Undefined)
  /\ UNCHANGED <<currentLevel, inputs, statusText, activeTab, selectedTile, unityVars, outsideApp>>

\* click on Resize with the two numbers of the size inputs
ResizeClick ==
  /\ ops < MaxOps
  /\ \E size \in ResizeSizes :
       /\ currentLevel' =
            IF JsGreaterEq(size[1], Num(MinResize)) /\ JsGreaterEq(size[2], Num(MinResize))
            THEN resizeLevel(currentLevel, size[1], size[2])
            ELSE currentLevel
       /\ inputs' =
            IF JsGreaterEq(size[1], Num(MinResize)) /\ JsGreaterEq(size[2], Num(MinResize))
            THEN InputsFromLevel(currentLevel')
            ELSE inputs
       /\ Handled("resize", <<>>, size[1], size[2])
  /\ UNCHANGED <<statusText, activeTab, selectedTile, painting, unityVars, outsideApp>>

\* click on New
NewLevelClick ==
  /\ ops < MaxOps
  /\ currentLevel' = syncInputsFromLevel(createEmptyLevel(EmptyWidth, EmptyHeight))
  /\ inputs' = InputsFromLevel(currentLevel')
  /\ statusText' = "New level"
  /\ Handled("newLevel", <<>>, Undefined, Undefined)
  /\ UNCHANGED <<activeTab, selectedTile, painting, unityVars, outsideApp>>

\* click on Load with the trimmed text of the box
LoadEncodedClick ==
  /\ ops < MaxOps
  /\ \E encoded \in EditorTokens \cup {<<>>} :
       /\ \E r \in {IF Len(encoded) > 0 THEN loadEncoded(currentLevel, encoded)
                    ELSE [level |-> currentLevel, status |-> statusText]} :
            /\ currentLevel' = r.level
            /\ statusText' = r.status
            /\ inputs' = IF r.status = "Decoded" THEN InputsFromLevel(r.level) ELSE inputs
       /\ Handled(IF Len(encoded) > 0 THEN "loadEncoded" ELSE "loadClick",
                  encoded, Undefined, Undefined)
  /\ UNCHANGED <<activeTab, selectedTile, painting, unityVars, outsideApp>>

\* the level, the status and the form after r of LoadFromTool
ToolLoaded(r, op, token) ==
  /\ currentLevel' = r.level
  /\ statusText' = r.status
  /\ inputs' = IF r.status \in {"Decoded", "Loaded"} THEN InputsFromLevel(r.level) ELSE inputs
  /\ Handled(op, token, Undefined, Undefined)

\* app.ontoolinput: showLoading, then the arguments
OnToolInput ==
  /\ ops < MaxOps
  /\ \E d \in ToolInputs :
       ToolLoaded(LoadFromTool(currentLevel, d, "Processing"),
                  IF d.hasTiles THEN "loadLevel" ELSE "loadEncoded",
                  IF d.hasTiles THEN <<>> ELSE d.encoded_level)
  /\ UNCHANGED <<activeTab, selectedTile, painting, unityVars, outsideApp>>

\* app.ontoolresult: hideLoading, then the structuredContent, if any
OnToolResult ==
  /\ ops < MaxOps
  /\ \/ \E d \in ToolResults :
          ToolLoaded(LoadFromTool(currentLevel, d, "Ready"), "loadLevel", <<>>)
     \/ /\ statusText' = "Ready"
        /\ Handled("noResult", <<>>, Undefined, Undefined)
        /\ UNCHANGED <<currentLevel, inputs>>
  /\ UNCHANGED <<activeTab, selectedTile, painting, unityVars, outsideApp>>

\* change of the name, the description or one of the three numbers
InputChange ==
  /\ ops < MaxOps
  /\ \E c \in FormChanges : inputs' = [inputs EXCEPT ![c[1]] = c[2]]
  /\ currentLevel' = refreshEncoded(syncLevelFromInputs(currentLevel, inputs'))
  /\ Handled("inputChange", <<>>, Undefined, Undefined)
  /\ UNCHANGED <<statusText, activeTab, selectedTile, painting, unityVars, outsideApp>>

\* click on Copy
CopyClick ==
  /\ ops < MaxOps
  /\ currentLevel' = refreshEncoded(currentLevel)
  /\ statusText' = IF FalsyText(currentLevel'.encodedLevel) THEN statusText
                   ELSE "Copied encoded level"
  /\ Handled("copy", <<>>, Undefined, Undefined)
  /\ UNCHANGED <<inputs, activeTab, selectedTile, painting, unityVars, outsideApp>>

\* sendLevelToModel, to the end of its await
SendClick ==
  /\ ops < MaxOps
  /\ currentLevel' = refreshEncoded(syncLevelFromInputs(currentLevel, inputs))
  /\ statusText' = "Sent to model"
  /\ Handled("send", <<>>, Undefined, Undefined)
  /\ UNCHANGED <<inputs, activeTab, selectedTile, painting, unityVars, outsideApp>>

(***************************************************************************)
(* The player.  loads[k] is the point the k-th call of                     *)
(* updatePlayerFrameDirect has reached: "bundle" while it awaits the       *)
(* bundle, "poll" while it awaits the poll for createUnityInstance,        *)
(* "instance" while it awaits createUnityInstance, "iframe" while it       *)
(* awaits updatePlayerFrame in its catch, "done" after its return.         *)
(***************************************************************************)
\* cleanupUnity()
cleanupUnity ==
  IF unityCleanedUp
  THEN UNCHANGED <<unityCleanedUp, currentUnityInstance, quitInstances, windowFetch,
                   savedFetch, windowAlert, savedAlert, createUnityInstanceDefined>>
  ELSE /\ unityCleanedUp' = TRUE
       /\ currentUnityInstance' = NoInstance
       /\ quitInstances' = IF currentUnityInstance # NoInstance
                           THEN quitInstances \cup {currentUnityInstance.load}
                           ELSE quitInstances
       /\ windowFetch' = IF savedFetch # NoFunction THEN savedFetch ELSE windowFetch
       /\ savedFetch' = NoFunction
       /\ windowAlert' = IF savedAlert # NoFunction THEN savedAlert ELSE windowAlert
       /\ savedAlert' = NoFunction
       /\ createUnityInstanceDefined' = FALSE

\* updatePlayerFrameDirect() up to its first await, on the level lv that the
\* caller has just refreshed
StartDirectLoad(lv) ==
  IF FalsyText(lv.encodedLevel)
  THEN /\ statusText' = "Missing encoded level"
       /\ UNCHANGED unityVars
  ELSE /\ statusText' = "Loading game..."
       /\ unityCleanedUp' = FALSE
       /\ savedAlert' = windowAlert
       /\ windowAlert' = Stub(Len(loads) + 1)
       /\ loads' = Append(loads, "bundle")
       /\ UNCHANGED <<currentUnityInstance, windowFetch, savedFetch,
                      createUnityInstanceDefined, quitInstances>>

\* switchTab(tab) for the tab that is not the active one
SwitchTab ==
  /\ ops < MaxOps
  /\ \E tab \in {"edit", "play"} :
       /\ tab # activeTab
       /\ activeTab' = tab
       /\ IF tab = "play"
          THEN /\ currentLevel' = refreshEncoded(syncLevelFromInputs(currentLevel, inputs))
               /\ StartDirectLoad(currentLevel')
          ELSE /\ statusText' = "Editing"
               /\ cleanupUnity
               /\ UNCHANGED <<currentLevel, loads>>
  /\ Handled("switchTab", <<>>, Undefined, Undefined)
  /\ UNCHANGED <<inputs, selectedTile, painting, outsideApp>>

\* click on Play
PlayClick ==
  /\ ops < MaxOps
  /\ currentLevel' = refreshEncoded(syncLevelFromInputs(currentLevel, inputs))
  /\ StartDirectLoad(currentLevel')
  /\ Handled("play", <<>>, Undefined, Undefined)
  /\ UNCHANGED <<inputs, activeTab, selectedTile, painting, outsideApp>>

NextEditor ==
  \/ SelectTile \/ PointerDown \/ PointerOver \/ PointerUp
  \/ ResizeClick \/ NewLevelClick \/ LoadEncodedClick
  \/ OnToolInput \/ OnToolResult
  \/ InputChange \/ CopyClick \/ SendClick
  \/ SwitchTab \/ PlayClick

SpecEditor == InitEditor /\ [][NextEditor]_vars

(***************************************************************************)
(* The steps of a direct load between two awaits, and the player on its    *)
(* own: tab switches, Play clicks and these steps in any order.            *)
(***************************************************************************)
\* the catch of updatePlayerFrameDirect, up to the first await of
\* updatePlayerFrame (the level has a token, so it does not return early)
CatchDirect(k) ==
  /\ statusText' = "Loading game..."
  /\ loads' = [loads EXCEPT ![k] = "iframe"]

\* the bundle arrives whole: the globals of the level, the replacement of
\* window.fetch, and the loader script, which runs when it is appended and
\* defines createUnityInstance
BundleArrives ==
  /\ \E k \in 1..Len(loads) :
       /\ loads[k] = "bundle"
       /\ savedFetch' = windowFetch
       /\ windowFetch' = Stub(k)
       /\ createUnityInstanceDefined' = TRUE
       /\ loads' = [loads EXCEPT ![k] = "poll"]
  /\ UNCHANGED <<unityCleanedUp, currentUnityInstance, windowAlert, savedAlert,
                 quitInstances, editorVars, outsideApp>>

\* the tool call fails, or the bundle lacks a file: throw
BundleFails ==
  /\ \E k \in 1..Len(loads) :
       /\ loads[k] = "bundle"
       /\ CatchDirect(k)
  /\ UNCHANGED <<unityCleanedUp, currentUnityInstance, windowFetch, windowAlert,
                 savedFetch, savedAlert, createUnityInstanceDefined, quitInstances,
                 currentLevel, inputs, activeTab, selectedTile, painting, ops, lastOp,
                 outsideApp>>

\* the poll resolves, on a tick that finds createUnityInstance or on its
\* timeout: createUnityInstance is called, or the load throws
PollResolves ==
  /\ \E k \in 1..Len(loads) :
       /\ loads[k] = "poll"
       /\ IF createUnityInstanceDefined
          THEN /\ statusText' = "Starting Unity..."
               /\ loads' = [loads EXCEPT ![k] = "instance"]
          ELSE CatchDirect(k)
  /\ UNCHANGED <<unityCleanedUp, currentUnityInstance, windowFetch, windowAlert,
                 savedFetch, savedAlert, createUnityInstanceDefined, quitInstances,
                 currentLevel, inputs, activeTab, selectedTile, painting, ops, lastOp,
                 outsideApp>>

\* createUnityInstance resolves
InstanceCreated ==
  /\ \E k \in 1..Len(loads) :
       /\ loads[k] = "instance"
       /\ currentUnityInstance' = Instance(k)
       /\ loads' = [loads EXCEPT ![k] = "done"]
  /\ statusText' = "Playing"
  /\ UNCHANGED <<unityCleanedUp, windowFetch, windowAlert, savedFetch, savedAlert,
                 createUnityInstanceDefined, quitInstances,
                 currentLevel, inputs, activeTab, selectedTile, painting, ops, lastOp,
                 outsideApp>>

\* updatePlayerFrame returns: the frame is loading, or its catch ran
IframeDone ==
  /\ \E k \in 1..Len(loads) :
       /\ loads[k] = "iframe"
       /\ loads' = [loads EXCEPT ![k] = "done"]
  /\ \E status \in {"Loading game...", "Failed to load game"} : statusText' = status
  /\ UNCHANGED <<unityCleanedUp, currentUnityInstance, windowFetch, windowAlert,
                 savedFetch, savedAlert, createUnityInstanceDefined, quitInstances,
                 currentLevel, inputs, activeTab, selectedTile, painting, ops, lastOp,
                 outsideApp>>

NextUnity ==
  \/ SwitchTab \/ PlayClick
  \/ BundleArrives \/ BundleFails \/ PollResolves \/ InstanceCreated \/ IframeDone

SpecUnity == InitEditor /\ [][NextUnity]_vars

(***************************************************************************)
(* C2: runLengthEncode, on the server and in the UI, returns the reference *)
(* compression of its input: every maximal run of more than two dots is    *)
(* written as a dot followed by the decimal length of the run, a run of    *)
(* one or two dots is kept, every other character is copied in order, and  *)
(* runs separated by another character are not merged.                     *)
(***************************************************************************)
\* position i starts a maximal run of dots
StartsDotRun(s, i) == s[i] = "." /\ (i = 1 \/ s[i - 1] # ".")

\* length of the maximal run of dots that starts at position i
DotRunLength(s, i) ==
  CHOOSE n \in 1..(Len(s) - i + 1) :
    /\ \A k \in i..(i + n - 1) : s[k] = "."
    /\ (i + n > Len(s) \/ s[i + n] # ".")

\* what position i contributes to the compressed text
RefPiece(s, i) ==
  IF s[i] # "." THEN <<s[i]>>
  ELSE IF ~StartsDotRun(s, i) THEN <<>>
  ELSE LET n == DotRunLength(s, i)
       IN  IF n > 2 THEN <<".">> \o NatToStr(n) ELSE [k \in 1..n |-> "."]

RECURSIVE RefCompressFrom(_, _)
RefCompressFrom(s, i) ==
  IF i > Len(s) THEN <<>> ELSE RefPiece(s, i) \o RefCompressFrom(s, i + 1)

RefCompress(s) == RefCompressFrom(s, 1)

C2_RunLengthEncodeIsReference ==
  /\ rleSrv.called => rleSrv.ret = RefCompress(rleInput)
  /\ rleUi.called => rleUi.ret = RefCompress(rleInput)
  /\ (rleSrv.called /\ rleInput = GGddRR) => rleSrv.ret = GGddRR
  /\ (rleSrv.called /\ rleInput = GddddR) => rleSrv.ret = <<"G", ".", "4", "R">>
  /\ (rleUi.called /\ rleInput = <<".", ".">>) => rleUi.ret = <<".", ".">>
  /\ (rleUi.called /\ rleInput = <<".", ".", ".">>) => rleUi.ret = <<".", "3">>

\* both copies have compressed a text with a long run between two tiles
C2_Witness ==
  /\ rleInput = <<"W">> \o Repeat(".", 10) \o <<"S">>
  /\ rleSrv.called /\ rleUi.called
  /\ rleSrv.ret = <<"W", ".", "1", "0", "S">>

(***************************************************************************)
(* Vocabulary of the codec claims.                                         *)
(***************************************************************************)
ParamKeys == {"maxEnemies", "enemySpawnChance", "coinSpawnChance"}

\* the payload text behind a token
PayloadOf(token) == base64urlDecode(token)

\* the text before the first bar
CoreOf(payload) == Split(payload, "|")[1]

\* the text before the first colon of the core section
DimsOf(payload) == Split(CoreOf(payload), ":")[1]

\* the text after the first colon of the core section
BodyOf(payload) ==
  LET core == CoreOf(payload)
  IN  SubSeq(core, IndexOf(core, ":") + 1, Len(core))

\* two base-10 integers separated by one x
WellFormedDims(d) ==
  LET p == Split(d, "x")
  IN  /\ Len(p) = 2
      /\ p[1] # <<>> /\ AllDigits(p[1])
      /\ p[2] # <<>> /\ AllDigits(p[2])

\* a rectangular grid of at least one cell whose tile ids are in 0..7, with
\* every parameter absent or finite
InRoundTripDomain(l) ==
  /\ l # NoLevel
  /\ Len(l.tiles) >= 1 /\ Len(l.tiles[1]) >= 1
  /\ \A y \in 1..Len(l.tiles) :
       /\ Len(l.tiles[y]) = Len(l.tiles[1])
       /\ \A x \in 1..Len(l.tiles[y]) : l.tiles[y][x] \in 0..7
  /\ \A k \in ParamKeys : l[k] = Undefined \/ IsFinite(l[k])

\* decode dec was applied to the token of encode enc and gave the level back
RoundTrips(enc, dec) ==
  (enc.called /\ dec.called /\ dec.arg = enc.ret /\ InRoundTripDomain(level)) =>
    /\ ~dec.ret.threw
    /\ dec.ret.width = Num(Len(level.tiles[1]))
    /\ dec.ret.height = Num(Len(level.tiles))
    /\ dec.ret.tiles = level.tiles
    /\ \A k \in ParamKeys : dec.ret[k] = level[k]

(***************************************************************************)
(* C1: round trip.  For a rectangular grid of at least one cell with tile  *)
(* ids in 0..7 and parameters that are absent or finite, decoding the      *)
(* token of encode returns the same width, height, tiles and parameters,   *)
(* for the server pair and for the UI pair.                                *)
(***************************************************************************)
C1_RoundTrip == RoundTrips(srvEnc, srvDec) /\ RoundTrips(uiEnc, uiDec)

\* the example grid with one negative, one absent and one zero parameter
\* went through both pairs
C1_Witness ==
  /\ level = Level(ExampleGrid, Num(0 - 1), Undefined, Num(0))
  /\ srvEnc.called /\ uiEnc.called /\ srvDec.called /\ uiDec.called
  /\ srvDec.arg = srvEnc.ret /\ uiDec.arg = uiEnc.ret
  /\ srvDec.ret.tiles = ExampleGrid /\ uiDec.ret.tiles = ExampleGrid

(***************************************************************************)
(* C4: decode raises whenever the dimensions segment of a payload that has *)
(* a colon is not two base-10 integers separated by x.                     *)
(***************************************************************************)
RaisesOnBadDims(dec) ==
  (/\ dec.called
   /\ Includes(CoreOf(PayloadOf(dec.arg)), ":")
   /\ ~WellFormedDims(DimsOf(PayloadOf(dec.arg)))) => dec.ret.threw

C4_MalformedDimsRaise == RaisesOnBadDims(srvDec) /\ RaisesOnBadDims(uiDec)

(***************************************************************************)
(* C5: decoding a token whose payload has no colon raises, on the server   *)
(* and in the UI.                                                          *)
(***************************************************************************)
RaisesWithoutColon(dec) ==
  (dec.called /\ ~Includes(PayloadOf(dec.arg), ":")) => dec.ret.threw

C5_NoColonRaises == RaisesWithoutColon(srvDec) /\ RaisesWithoutColon(uiDec)

\* both decoders were given the token of not-a-level and raised
C5_Witness ==
  /\ extToken = [present |-> TRUE, token |-> base64urlEncode(NotALevel)]
  /\ srvDec.called /\ srvDec.ret.threw
  /\ uiDec.called /\ uiDec.ret.threw

(***************************************************************************)
(* C6: a payload with a bar and a well-formed core never makes decode      *)
(* raise, whatever the parameter section holds; decode returns the grid of *)
(* the core, and when the section is not a JSON object all three           *)
(* parameters are absent.                                                  *)
(***************************************************************************)
\* the text between the first bar and the next one
SectionOf(payload) == Split(payload, "|")[2]

SectionIsObject(payload) ==
  LET parsed == JsonParse(base64urlDecode(SectionOf(payload)))
  IN  ~parsed.threw /\ parsed.value.type = "object"

LenientOnParams(dec) ==
  LET payload == PayloadOf(dec.arg)
  IN  (/\ dec.called
       /\ Includes(payload, "|")
       /\ Includes(CoreOf(payload), ":")
       /\ WellFormedDims(DimsOf(payload))
       /\ BodyOf(payload) # <<>>) =>
        /\ ~dec.ret.threw
        /\ dec.ret.width = ToNumber(Split(DimsOf(payload), "x")[1])
        /\ dec.ret.height = ToNumber(Split(DimsOf(payload), "x")[2])
        /\ ~SectionIsObject(payload) => \A k \in ParamKeys : dec.ret[k] = Undefined

C6_BadParamsNeverRaise == LenientOnParams(srvDec) /\ LenientOnParams(uiDec)

(***************************************************************************)
(* C7: a payload with well-formed dimensions w x h whose expanded tile     *)
(* body has fewer than w*h characters, a body of no character included,    *)
(* never makes decode raise: the cells the body covers carry its tiles and *)
(* the others are 0.                                                       *)
(***************************************************************************)
\* cell (y, x) of a w-wide grid read from the text body, 0 past its end
PaddedCell(body, w, y, x) ==
  LET k == ((y - 1) * w) + x
  IN  IF k <= Len(body) /\ body[k] \in TileCharSet
      THEN (CHOOSE i \in 1..8 : tileChars[i] = body[k]) - 1
      ELSE 0

LenientOnTruncation(dec) ==
  LET payload  == PayloadOf(dec.arg)
      w        == DigitsToNat(Split(DimsOf(payload), "x")[1], 0)
      h        == DigitsToNat(Split(DimsOf(payload), "x")[2], 0)
      expanded == runLengthDecode(BodyOf(payload))
  IN  (/\ dec.called
       /\ ~Includes(payload, "|")
       /\ Includes(payload, ":")
       /\ WellFormedDims(DimsOf(payload))
       /\ ~Includes(BodyOf(payload), ":")
       /\ Len(expanded) < w * h) =>
        /\ ~dec.ret.threw
        /\ dec.ret.tiles = [y \in 1..h |-> [x \in 1..w |-> PaddedCell(expanded, w, y, x)]]

C7_TruncatedBodyPads == LenientOnTruncation(srvDec) /\ LenientOnTruncation(uiDec)

(***************************************************************************)
(* C8: the server codec and the UI codec are interchangeable: they encode  *)
(* a level to the same token, and on the same token they both raise or     *)
(* both return the same width, height, tiles and parameters.               *)
(***************************************************************************)
SameLevel(a, b) ==
  /\ a.width = b.width /\ a.height = b.height /\ a.tiles = b.tiles
  /\ \A k \in ParamKeys : a[k] = b[k]

C8_ServerAndUIAgree ==
  /\ (srvEnc.called /\ uiEnc.called) => srvEnc.ret = uiEnc.ret
  /\ (srvDec.called /\ uiDec.called /\ srvDec.arg = uiDec.arg) =>
       \/ srvDec.ret.threw /\ uiDec.ret.threw
       \/ ~srvDec.ret.threw /\ ~uiDec.ret.threw /\ SameLevel(srvDec.ret, uiDec.ret)

(***************************************************************************)
(* C9: the decoder injected into the game page and LevelEncoder.decode     *)
(* agree: where the injected decoder produces a grid the reference decoder *)
(* returns the same grid without raising, and where the reference decoder  *)
(* returns a grid the injected decoder produces that grid.                 *)
(***************************************************************************)
C9_GameAndUIAgree ==
  (gameDec.called /\ uiDec.called /\ gameDec.arg = uiDec.arg) =>
    /\ ~gameDec.ret.tilesNull =>
         ~uiDec.ret.threw /\ uiDec.ret.tiles = gameDec.ret.tiles
    /\ ~uiDec.ret.threw =>
         ~gameDec.ret.tilesNull /\ gameDec.ret.tiles = uiDec.ret.tiles

(***************************************************************************)
(* C3: after a successful edit_level_tile or edit_level_row, the returned  *)
(* encoded_level is the encoding of the mutated grid: it decodes to the    *)
(* grid of the input token with the cell (the row) replaced, and it is not *)
(* the input token when the edit changed a tile.                           *)
(***************************************************************************)
\* the grid the edit is meant to produce from the grid of the input token
EditedGrid(before, call) ==
  IF call.tool = "edit_level_tile"
  THEN [before EXCEPT ![call.args.row + 1][call.args.col + 1] = call.args.new_tile_type]
  ELSE [before EXCEPT ![call.args.row + 1] = call.args.new_row_tiles]

C3_EditReturnsReencodedToken ==
  (/\ toolCall.called
   /\ toolCall.tool \in {"edit_level_tile", "edit_level_row"}
   /\ IsInteger(toolCall.args.row) /\ IsInteger(toolCall.args.col)
   /\ toolCall.ret.ok) =>
     LET before   == decodeLevel(toolToken).tiles
         returned == toolCall.ret.structured.encoded_level
         after    == decodeLevel(returned)
     IN  /\ ~after.threw
         /\ after.tiles = EditedGrid(before, toolCall)
         /\ EditedGrid(before, toolCall) # before => returned # toolToken

(***************************************************************************)
(* C10: decode_level_from_url, edit_level_tile, edit_level_row and         *)
(* edit_level_metadata answer a token whose payload has no colon, or whose *)
(* dimensions are not two integers, with an error text and no              *)
(* structuredContent.                                                      *)
(***************************************************************************)
StructurallyInvalid(token) ==
  \/ ~Includes(CoreOf(PayloadOf(token)), ":")
  \/ ~WellFormedDims(DimsOf(PayloadOf(token)))

C10_ToolsRejectInvalidTokens ==
  (toolCall.called /\ StructurallyInvalid(toolToken)) =>
     ~toolCall.ret.ok /\ toolCall.ret.structured = NoStructured

(***************************************************************************)
(* C11: edit_level_tile answers a row outside 0..height-1, a col outside   *)
(* 0..width-1 or a new_tile_type outside 0..7 with an error text and no    *)
(* structuredContent; when it succeeds, the returned grid is the decoded   *)
(* grid with that one cell written.                                        *)
(***************************************************************************)
\* n is one of the integers lo..hi
InRange(n, lo, hi) == IsInteger(n) /\ lo <= n /\ n <= hi

\* number of rows of a grid, and length of its first row
HeightOf(tiles) == Len(tiles)
WidthOf(tiles) == IF tiles = <<>> THEN 0 ELSE Len(tiles[1])

C11_TileEditValidates ==
  (toolCall.called /\ toolCall.tool = "edit_level_tile" /\ toolToken # <<>>) =>
     LET dec  == decodeLevel(toolToken)
         a    == toolCall.args
         good == /\ ~dec.threw
                 /\ InRange(a.row, 0, HeightOf(dec.tiles) - 1)
                 /\ InRange(a.col, 0, WidthOf(dec.tiles) - 1)
                 /\ InRange(a.new_tile_type, 0, 7)
     IN  /\ ~good => ~toolCall.ret.ok /\ toolCall.ret.structured = NoStructured
         /\ toolCall.ret.ok =>
              toolCall.ret.structured.tiles =
                [dec.tiles EXCEPT ![a.row + 1][a.col + 1] = a.new_tile_type]

(***************************************************************************)
(* C12: edit_level_row answers a row outside 0..height-1, a new_row_tiles  *)
(* whose length is not the width, or a new_row_tiles with an entry outside *)
(* 0..7, with an error text and no structuredContent; when it succeeds,    *)
(* the returned grid is the decoded grid with that row replaced.           *)
(***************************************************************************)
C12_RowEditValidates ==
  (toolCall.called /\ toolCall.tool = "edit_level_row" /\ toolToken # <<>>) =>
     LET dec  == decodeLevel(toolToken)
         a    == toolCall.args
         good == /\ ~dec.threw
                 /\ InRange(a.row, 0, HeightOf(dec.tiles) - 1)
                 /\ Len(a.new_row_tiles) = WidthOf(dec.tiles)
                 /\ \A i \in 1..Len(a.new_row_tiles) : InRange(a.new_row_tiles[i], 0, 7)
     IN  /\ ~good => ~toolCall.ret.ok /\ toolCall.ret.structured = NoStructured
         /\ toolCall.ret.ok =>
              toolCall.ret.structured.tiles =
                [dec.tiles EXCEPT ![a.row + 1] = a.new_row_tiles]

(***************************************************************************)
(* C13: lenient encode.  Every tile id that is not one of 0..7 (negative,  *)
(* above 7, not an integer) is written as a dot: the token of a grid is    *)
(* the token of the same grid with each such id replaced by 0, for the     *)
(* server and for the UI.                                                  *)
(***************************************************************************)
\* the level with every tile id outside 0..7 replaced by 0
Sanitized(l) ==
  [l EXCEPT !.tiles = [y \in 1..Len(l.tiles) |->
                         [x \in 1..Len(l.tiles[y]) |->
                            IF InRange(l.tiles[y][x], 0, 7) THEN l.tiles[y][x] ELSE 0]]]

HasBadTile(l) ==
  \E y \in 1..Len(l.tiles) : \E x \in 1..Len(l.tiles[y]) : ~InRange(l.tiles[y][x], 0, 7)

C13_LenientEncode ==
  /\ srvEnc.called => srvEnc.ret = encodeLevel(Sanitized(level))
  /\ uiEnc.called => uiEnc.ret = LevelEncoder_encode(Sanitized(level))

\* the row Grass, 8, Empty, 1.5, -1 was encoded by both as 5x1:G.4
C13_Witness ==
  /\ level # NoLevel /\ level.tiles = MixedRow /\ HasBadTile(level)
  /\ srvEnc.called /\ uiEnc.called
  /\ PayloadOf(srvEnc.ret) = <<"5", "x", "1", ":", "G", ".", "4">>
  /\ PayloadOf(uiEnc.ret) = <<"5", "x", "1", ":", "G", ".", "4">>

(***************************************************************************)
(* C14: the payload built by encode has a bar section exactly when one of  *)
(* the three parameters is a finite number; the section then holds exactly *)
(* the finite parameters with their values; and a decode of a token whose  *)
(* payload has no bar returns the three parameters absent.                 *)
(***************************************************************************)
KeyTextOf(k) ==
  CASE k = "maxEnemies" -> KeyMaxEnemies
    [] k = "enemySpawnChance" -> KeyEnemySpawnChance
    [] k = "coinSpawnChance" -> KeyCoinSpawnChance

\* the text after the first bar of a payload
AfterFirstBar(payload) == SubSeq(payload, IndexOf(payload, "|") + 1, Len(payload))

SectionCarriesFinite(enc) ==
  enc.called =>
    LET payload == PayloadOf(enc.ret)
        finite  == {k \in ParamKeys : IsFinite(level[k])}
        parsed  == JsonParse(base64urlDecode(AfterFirstBar(payload)))
    IN  /\ Includes(payload, "|") <=> finite # {}
        /\ finite # {} =>
             /\ ~parsed.threw
             /\ {parsed.members[i] : i \in 1..Len(parsed.members)}
                  = {<<KeyTextOf(k), level[k]>> : k \in finite}
             /\ Len(parsed.members) = Cardinality(finite)

NoSectionNoParams(dec) ==
  (dec.called /\ ~dec.ret.threw /\ ~Includes(PayloadOf(dec.arg), "|")) =>
    \A k \in ParamKeys : dec.ret[k] = Undefined

C14_ParamSectionPresence ==
  /\ SectionCarriesFinite(srvEnc) /\ SectionCarriesFinite(uiEnc)
  /\ NoSectionNoParams(srvDec) /\ NoSectionNoParams(uiDec)

\* one finite, one NaN and one infinite parameter: the section holds the
\* finite one alone
C14_Witness ==
  /\ level = Level(ExampleGrid, Num(MaxParam), NaN, Infinity)
  /\ srvEnc.called /\ uiEnc.called
  /\ Includes(PayloadOf(srvEnc.ret), "|")
  /\ JsonParse(base64urlDecode(AfterFirstBar(PayloadOf(srvEnc.ret)))).members
       = <<<<KeyMaxEnemies, Num(MaxParam)>>>>

(***************************************************************************)
(* C15: the core of the payload is width x height : compressed tiles,      *)
(* where height is the number of rows, width the length of the first row   *)
(* (0 without rows) and the tiles are the row-major tile string in its     *)
(* reference compression; the example grid without parameters has the      *)
(* payload 3x2:G.4R and its token decodes to the example grid.             *)
(***************************************************************************)
RECURSIVE RowMajor(_)
\* the characters of the tiles, row after row
RowMajor(tiles) ==
  IF tiles = <<>> THEN <<>>
  ELSE [x \in 1..Len(tiles[1]) |->
          IF InRange(tiles[1][x], 0, 7) THEN tileChars[tiles[1][x] + 1] ELSE "."]
       \o RowMajor(Tail(tiles))

CoreFormat(enc) ==
  enc.called =>
    CoreOf(PayloadOf(enc.ret)) =
      NatToStr(WidthOf(level.tiles)) \o <<"x">> \o NatToStr(HeightOf(level.tiles))
        \o <<":">> \o RefCompress(RowMajor(level.tiles))

ExamplePayload == <<"3", "x", "2", ":", "G", ".", "4", "R">>

ExampleToken(enc, dec) ==
  (/\ enc.called /\ level.tiles = ExampleGrid
   /\ \A k \in ParamKeys : ~IsFinite(level[k])) =>
     /\ PayloadOf(enc.ret) = ExamplePayload
     /\ (dec.called /\ dec.arg = enc.ret) => ~dec.ret.threw /\ dec.ret.tiles = ExampleGrid

C15_CorePayloadFormat ==
  /\ CoreFormat(srvEnc) /\ CoreFormat(uiEnc)
  /\ ExampleToken(srvEnc, srvDec) /\ ExampleToken(uiEnc, uiDec)

\* the example went through both pairs
C15_Witness ==
  /\ level = Level(ExampleGrid, Undefined, Undefined, Undefined)
  /\ srvEnc.called /\ PayloadOf(srvEnc.ret) = ExamplePayload
  /\ uiEnc.called /\ PayloadOf(uiEnc.ret) = ExamplePayload
  /\ srvDec.called /\ srvDec.arg = srvEnc.ret /\ srvDec.ret.tiles = ExampleGrid
  /\ uiDec.called /\ uiDec.arg = uiEnc.ret /\ uiDec.ret.tiles = ExampleGrid

(***************************************************************************)
(* C16: whenever decode returns, tiles has height rows of width entries,   *)
(* every entry is one of 0..7, and cell (y, x) is the tile of character    *)
(* y*width+x of the expanded tile body, 0 for a character that is no tile  *)
(* character or lies past the end of the body.                             *)
(***************************************************************************)
DecodeShape(dec) ==
  (dec.called /\ ~dec.ret.threw) =>
    LET r        == dec.ret
        expanded == runLengthDecode(BodyOf(PayloadOf(dec.arg)))
    IN  /\ r.height = Num(Len(r.tiles))
        /\ \A y \in 1..Len(r.tiles) :
             /\ r.width = Num(Len(r.tiles[y]))
             /\ \A x \in 1..Len(r.tiles[y]) :
                  /\ r.tiles[y][x] \in 0..7
                  /\ r.tiles[y][x] = PaddedCell(expanded, Len(r.tiles[y]), y, x)

C16_DecodeShape == DecodeShape(srvDec) /\ DecodeShape(uiDec)

(***************************************************************************)
(* C17: decode splits the core section at its first colon only: the tile   *)
(* body is all of the text after it, and a later colon is read as an       *)
(* unknown tile character at its place.                                    *)
(***************************************************************************)
SplitsAtFirstColon(dec) ==
  LET payload == PayloadOf(dec.arg)
      w       == DigitsToNat(Split(DimsOf(payload), "x")[1], 0)
      h       == DigitsToNat(Split(DimsOf(payload), "x")[2], 0)
      body    == runLengthDecode(BodyOf(payload))
  IN  (/\ dec.called /\ ~dec.ret.threw
       /\ Includes(CoreOf(payload), ":")
       /\ WellFormedDims(DimsOf(payload))) =>
        dec.ret.tiles = [y \in 1..h |-> [x \in 1..w |-> PaddedCell(body, w, y, x)]]

C17_SplitAtFirstColon == SplitsAtFirstColon(srvDec) /\ SplitsAtFirstColon(uiDec)

(***************************************************************************)
(* C18: decode splits the payload at its first bar only: the parameter     *)
(* section is all of the text after it, further bars included, and the     *)
(* parameters returned are the ones read from that text.                   *)
(***************************************************************************)
ParamsOfSection(dec, section) ==
  (/\ dec.called /\ ~dec.ret.threw
   /\ Includes(PayloadOf(dec.arg), "|")
   /\ section.value.type # "null") =>
     \A k \in ParamKeys : dec.ret[k] = GetProp(section, KeyTextOf(k))

C18_SplitAtFirstBar ==
  /\ ParamsOfSection(srvDec, ParseParams(AfterFirstBar(PayloadOf(srvDec.arg))))
  /\ ParamsOfSection(uiDec, LevelEncoder_ParseParams(AfterFirstBar(PayloadOf(uiDec.arg))))

(***************************************************************************)
(* C19: runLengthDecode returns the reference expansion of its input: a    *)
(* dot immediately followed by digits consumes all of the consecutive      *)
(* digits and gives that many dots (none for a count of 0); every other    *)
(* character, a dot not followed by a digit and a digit not preceded by a  *)
(* dot among them, is copied unchanged and in order.                       *)
(***************************************************************************)
\* the dot at position i starts a run
StartsRun(s, i) == s[i] = "." /\ i < Len(s) /\ IsDigit(s[i + 1])

\* the digit at position i belongs to the count of a run
InCount(s, i) ==
  /\ IsDigit(s[i])
  /\ \E k \in 1..(i - 1) : s[k] = "." /\ \A m \in (k + 1)..i : IsDigit(s[m])

\* the last position of the digits that start at position a
CountEnd(s, a) ==
  CHOOSE e \in a..Len(s) :
    /\ \A m \in a..e : IsDigit(s[m])
    /\ e = Len(s) \/ ~IsDigit(s[e + 1])

DigitValue(c) == CHOOSE d \in 0..9 : Digits[d + 1] = c

\* the decimal value of the digits at positions a..e
RECURSIVE CountValue(_, _, _)
CountValue(s, a, e) ==
  IF e < a THEN 0 ELSE (10 * CountValue(s, a, e - 1)) + DigitValue(s[e])

\* what position i gives to the expansion
PieceAt(s, i) ==
  IF StartsRun(s, i) THEN [n \in 1..CountValue(s, i + 1, CountEnd(s, i + 1)) |-> "."]
  ELSE IF InCount(s, i) THEN <<>>
  ELSE <<s[i]>>

RECURSIVE ExpandFrom(_, _)
ExpandFrom(s, i) == IF i > Len(s) THEN <<>> ELSE PieceAt(s, i) \o ExpandFrom(s, i + 1)

ReferenceExpansion(s) == ExpandFrom(s, 1)

KeyOrder == <<KeyMaxEnemies, KeyEnemySpawnChance, KeyCoinSpawnChance>>

KeyRank(key) == CHOOSE i \in 1..3 : KeyOrder[i] = key

\* the keys of the parameter section of a token, as written
KeysInOrder(token) ==
  LET payload == PayloadOf(token)
      parsed  == JsonParse(base64urlDecode(AfterFirstBar(payload)))
  IN  Includes(payload, "|") =>
        /\ ~parsed.threw
        /\ \A i \in 1..Len(parsed.members) :
             /\ parsed.members[i][1] \in {KeyOrder[k] : k \in 1..3}
             /\ \A j \in (i + 1)..Len(parsed.members) :
                  KeyRank(parsed.members[i][1]) < KeyRank(parsed.members[j][1])

SameCall(a, b) == a.op = b.op /\ a.side = b.side /\ a.arg = b.arg

IsUrlSafe(c) ==
  \/ c \in {"-", "_"}
  \/ /\ c \in DOMAIN CharCode
     /\ CharCode[c] \in (48..57) \cup (65..90) \cup (97..122)

UrlSafe(enc) == enc.called => \A i \in 1..Len(enc.ret) : IsUrlSafe(enc.ret[i])

C21_UrlSafeTokens == UrlSafe(srvEnc) /\ UrlSafe(uiEnc)

\* both encoders have encoded a level whose payload, 5x1:G.4, has a length
\* of 1 modulo 3: plain base64 would end in two padding characters
C21_Witness ==
  /\ srvEnc.called /\ uiEnc.called
  /\ level # NoLevel
  /\ encodePayload(level) = <<"5", "x", "1", ":", "G", ".", "4">>
  /\ Len(Base64Encode(encodePayload(level))) = Len(srvEnc.ret) + 2
  /\ uiEnc.ret = srvEnc.ret

(***************************************************************************)
(* C22: after a successful edit_level_metadata, the returned encoded_level *)
(* decodes to the grid of the input token and to the updated parameters:   *)
(* a parameter that was supplied has the supplied value, a parameter that  *)
(* was not supplied has what it had in the input token.                    *)
(***************************************************************************)
ArgOf(k) ==
  CASE k = "maxEnemies" -> "max_enemies"
    [] k = "enemySpawnChance" -> "enemy_spawn_chance"
    [] k = "coinSpawnChance" -> "coin_spawn_chance"

C22_MetadataEditReencodes ==
  (/\ toolCall.called
   /\ toolCall.tool = "edit_level_metadata"
   /\ toolCall.ret.ok) =>
     LET before == decodeLevel(toolToken)
         after  == decodeLevel(toolCall.ret.structured.encoded_level)
     IN  /\ ~after.threw
         /\ after.tiles = before.tiles
         /\ \A k \in ParamKeys :
              after[k] = IF toolCall.args[ArgOf(k)] = Undefined
                         THEN before[k]
                         ELSE toolCall.args[ArgOf(k)]

(***************************************************************************)
(* C23: in the structuredContent of a successful edit_level_tile the tiles *)
(* are those of the decoded input token in every cell but (row, col),      *)
(* which holds new_tile_type; in a successful edit_level_row they are      *)
(* those of the decoded input token in every row but row, which is         *)
(* new_row_tiles; width, height and the three parameters are those of the  *)
(* input token in both.                                                    *)
(***************************************************************************)
SameFrame(before, out) ==
  /\ out.width = before.width /\ out.height = before.height
  /\ \A k \in ParamKeys : out[k] = before[k]
  /\ Len(out.tiles) = Len(before.tiles)

TileEditFrame ==
  (toolCall.called /\ toolCall.tool = "edit_level_tile" /\ toolCall.ret.ok) =>
    LET before == decodeLevel(toolToken)
        out    == toolCall.ret.structured
        a      == toolCall.args
    IN  /\ SameFrame(before, out)
        /\ \A y \in 1..Len(before.tiles) :
             /\ Len(out.tiles[y]) = Len(before.tiles[y])
             /\ \A x \in 1..Len(before.tiles[y]) :
                  out.tiles[y][x] = IF y = a.row + 1 /\ x = a.col + 1
                                    THEN a.new_tile_type
                                    ELSE before.tiles[y][x]

RowEditFrame ==
  (toolCall.called /\ toolCall.tool = "edit_level_row" /\ toolCall.ret.ok) =>
    LET before == decodeLevel(toolToken)
        out    == toolCall.ret.structured
        a      == toolCall.args
    IN  /\ SameFrame(before, out)
        /\ \A y \in 1..Len(before.tiles) :
             out.tiles[y] = IF y = a.row + 1 THEN a.new_row_tiles ELSE before.tiles[y]

C23_EditFrame == TileEditFrame /\ RowEditFrame

\* cell (1, 1) of the example level, which has two parameters, was set to 7
C23_Witness ==
  /\ toolCall.called /\ toolCall.tool = "edit_level_tile" /\ toolCall.ret.ok
  /\ toolToken = encodeLevel(Level(ExampleGrid, Num(5), Undefined, Num(15)))
  /\ toolCall.args.row = 1 /\ toolCall.args.col = 1 /\ toolCall.args.new_tile_type = 7
  /\ toolCall.ret.structured.tiles = <<<<1, 0, 0>>, <<0, 7, 2>>>>
  /\ toolCall.ret.structured.maxEnemies = Num(5)

(***************************************************************************)
(* C28: in every successful create_level and edit_entire_level result the  *)
(* reported width and height are the dimensions of the returned tiles (the *)
(* number of rows, the length of the first row), and the returned          *)
(* encoded_level decodes to those tiles, that width and height and the     *)
(* finite parameters that were supplied, explicit width and height         *)
(* arguments or not.                                                       *)
(***************************************************************************)
C28_ReportedDimensions ==
  (/\ toolCall.called
   /\ toolCall.tool \in {"create_level", "edit_entire_level"}
   /\ toolCall.ret.ok) =>
     LET out == toolCall.ret.structured
         dec == decodeLevel(out.encoded_level)
     IN  /\ out.height = Num(HeightOf(out.tiles))
         /\ out.width = Num(WidthOf(out.tiles))
         /\ ~dec.threw
         /\ dec.tiles = out.tiles
         /\ dec.width = out.width /\ dec.height = out.height
         /\ \A k \in ParamKeys :
              dec[k] = IF IsFinite(toolCall.args[ArgOf(k)])
                       THEN toolCall.args[ArgOf(k)]
                       ELSE Undefined

(***************************************************************************)
(* C27: a token returned by encode for a grid of at least one row and one  *)
(* column, whatever its tile ids and parameters, is a fixed point: encode  *)
(* applied to what decode returns for it gives the same token.             *)
(***************************************************************************)
IsGrid(tiles) ==
  /\ Len(tiles) >= 1 /\ Len(tiles[1]) >= 1
  /\ \A y \in 1..Len(tiles) : Len(tiles[y]) = Len(tiles[1])

FixedPoint(dec, reenc) ==
  (reenc.called /\ level # NoLevel /\ IsGrid(level.tiles)) => reenc.ret = dec.arg

C27_CanonicalFixedPoint == FixedPoint(srvDec, srvReenc) /\ FixedPoint(uiDec, uiReenc)

\* the token of a 5x1 level with tile ids outside 0..7 went through decode
\* and encode on both sides and came back
C27_Witness ==
  /\ level # NoLevel /\ level.tiles = MixedRow
  /\ srvEnc.called /\ uiEnc.called
  /\ srvReenc.called /\ uiReenc.called
  /\ srvReenc.ret = srvEnc.ret /\ uiReenc.ret = uiEnc.ret

(***************************************************************************)
(* C24: loadEncoded is all-or-nothing.  A token that is structurally       *)
(* invalid (its text has no colon, or the text before the colon is not two *)
(* integers joined by an x) leaves currentLevel exactly as it was and sets *)
(* the status to 'Invalid encoded level'; currentLevel is replaced only by *)
(* a level that decode returned.                                           *)
(***************************************************************************)
C24_LoadEncodedAllOrNothing ==
  lastOp.op = "loadEncoded" =>
    /\ StructurallyInvalid(lastOp.token) =>
         /\ currentLevel = lastOp.before
         /\ statusText = "Invalid encoded level"
    /\ currentLevel # lastOp.before =>
         /\ ~LevelEncoder_decode(lastOp.token).threw
         /\ currentLevel.tiles = LevelEncoder_decode(lastOp.token).tiles

(***************************************************************************)
(* C26: resizeLevel(w, h) leaves a grid of h rows of w cells in which      *)
(* every cell that existed keeps its tile and every new cell is 0, sets    *)
(* width to w and height to h, and keeps the name, the description and the *)
(* three parameters; the Resize button applies it only when both numbers   *)
(* are at least the minimum, and leaves currentLevel unchanged otherwise.  *)
(***************************************************************************)
ResizeApplies(w, h) == JsGreaterEq(w, Num(MinResize)) /\ JsGreaterEq(h, Num(MinResize))

Resized(before, after, w, h) ==
  /\ after.width = w /\ after.height = h
  /\ Num(Len(after.tiles)) = h
  /\ \A y \in 1..Len(after.tiles) :
       /\ Num(Len(after.tiles[y])) = w
       /\ \A x \in 1..Len(after.tiles[y]) :
            after.tiles[y][x] = OldTileOrEmpty(before.tiles, y, x)
  /\ after.name = before.name /\ after.description = before.description
  /\ \A k \in ParamKeys : after[k] = before[k]

C26_ResizeKeepsCells ==
  lastOp.op = "resize" =>
    IF ResizeApplies(lastOp.width, lastOp.height)
    THEN Resized(lastOp.before, currentLevel, lastOp.width, lastOp.height)
    ELSE currentLevel = lastOp.before

(***************************************************************************)
(* C29: after every completed operation of the editor (a paint, a resize,  *)
(* a new level, a load of a level or of a token, a change of the name or   *)
(* of a parameter, a copy, a send to the model, a switch to the Play tab)  *)
(* currentLevel.encodedLevel is LevelEncoder.encode of the current tiles   *)
(* and parameters.                                                         *)
(***************************************************************************)
C29_TokenIsFresh == currentLevel.encodedLevel = LevelEncoder_encode(currentLevel)

\* a paint has changed a cell of a level that an earlier operation left, and
\* the token with it
C29_Witness ==
  /\ lastOp.op = "paintTile"
  /\ ops = MaxOps
  /\ currentLevel.tiles # lastOp.before.tiles
  /\ currentLevel.encodedLevel # lastOp.before.encodedLevel
  /\ currentLevel.encodedLevel = LevelEncoder_encode(currentLevel)

(***************************************************************************)
(* C30: after every sequence of operations of the editor that starts from  *)
(* the initial level (new level, resizeLevel, loadEncoded, loadLevel from  *)
(* ontoolinput or ontoolresult), currentLevel.height is the number of rows *)
(* of currentLevel.tiles, currentLevel.width is the length of every row,   *)
(* and both are non-negative integers.                                     *)
(***************************************************************************)
NonNegativeInteger(n) == n.type = "number" /\ IsInteger(n.val) /\ n.val >= 0

C30_DimensionsMatchTiles ==
  /\ NonNegativeInteger(currentLevel.width)
  /\ NonNegativeInteger(currentLevel.height)
  /\ currentLevel.height = Num(Len(currentLevel.tiles))
  /\ \A y \in 1..Len(currentLevel.tiles) :
       currentLevel.width = Num(Len(currentLevel.tiles[y]))

(***************************************************************************)
(* C25: Unity is cleaned up when the Play tab is left.  Under every        *)
(* interleaving of tab switches, Play clicks and steps of direct loads,    *)
(* once the active tab is 'edit' and no direct load is in flight,          *)
(* currentUnityInstance is null, every instance created has been quit, and *)
(* window.fetch and window.alert are the functions that were installed     *)
(* before the first direct load.                                           *)
(***************************************************************************)
NoLoadInFlight == \A k \in 1..Len(loads) : loads[k] = "done"

\* the loads whose createUnityInstance has resolved
CreatedInstances ==
  quitInstances \cup (IF currentUnityInstance = NoInstance THEN {}
                      ELSE {currentUnityInstance.load})

C25_CleanedUpOnEdit ==
  (activeTab = "edit" /\ NoLoadInFlight) =>
     /\ currentUnityInstance = NoInstance
     /\ CreatedInstances \subseteq quitInstances
     /\ windowFetch = NativeFunction
     /\ windowAlert = NativeFunction
====
